---- MODULE Spec2Model ----
(***************************************************************************)
(* A model of the class-file decoder of jadis: the byte reader, the        *)
(* fixed-width decoders, the nine flag decoders, the constant-pool loop,   *)
(* the attribute decoder and ClassFile::new.                               *)
(*                                                                         *)
(* A panic of the Rust code is modelled as a result with ok = FALSE and    *)
(* the name of the panic in err; the decode then stops (pc = "panicked").  *)
(* Values of type u32 are kept as a pair <<high 16 bits, low 16 bits>>.    *)
(***************************************************************************)
EXTENDS Integers, Sequences, FiniteSets, TLC

VARIABLES
    data,                 \* ByteReader.data, as a sequence of runs (see DataLen)
    position,             \* ByteReader.position
    pc,                   \* the statement of ClassFile::new that runs next
    panic,                \* "" or the panic that ended the decode
    magic, minor_version, major_version,
    constant_pool_count,  \* read_constant_pool: the count read from the file
    index,                \* read_constant_pool: the loop index
    constant_pool,        \* the ConstantPoolContainer (a BTreeMap<u16, _>)
    access_flags, this_class, super_class, interfaces, fields, methods, attributes,
    constant_pool_index,  \* the values that the local constant_pool_index of read_this_class,
                          \* of read_super_class and of read_interfaces has taken, per function
    remaining,            \* iterations left of the count-driven loop that is running
    ret                   \* the value returned by the last direct call (reader and flag specifications)

vars == <<data, position, pc, panic, magic, minor_version, major_version,
          constant_pool_count, index, constant_pool, access_flags, this_class,
          super_class, interfaces, fields, methods, attributes,
          constant_pool_index, remaining, ret>>

\* Option::None
None == [none |-> TRUE]

\* Option::Some(v)
Some(v) == [none |-> FALSE, some |-> v]

Byte == 0..255

U16Modulus == 65536

(***************************************************************************)
(* The byte buffer.  Vec<u8> is kept run-length encoded: a sequence of     *)
(* runs [unit, reps], standing for unit repeated reps times.  The bytes    *)
(* are only ever read through DataLen and ByteAt.                          *)
(***************************************************************************)
RECURSIVE DataLen(_)
DataLen(d) ==
    IF d = <<>> THEN 0
    ELSE Len(Head(d).unit) * Head(d).reps + DataLen(Tail(d))

\* The byte at 0-based offset off < DataLen(d).
RECURSIVE ByteAt(_, _)
ByteAt(d, off) ==
    LET run == Head(d)
        n == Len(run.unit) * run.reps
    IN IF off < n THEN run.unit[(off % Len(run.unit)) + 1]
       ELSE ByteAt(Tail(d), off - n)

\* self.data.get(from..to) for from <= to <= len
Slice(d, from, to) == [i \in 1..(to - from) |-> ByteAt(d, from + i - 1)]

\* A plain buffer: one run holding the bytes once.
Plain(bytes) == IF bytes = <<>> THEN <<>> ELSE <<[unit |-> bytes, reps |-> 1]>>

\* A reader that refuses the read that ends exactly at the end of the buffer.
ReadNBytesShort(d, p, n) ==
    IF p + n < DataLen(d)
    THEN [ok |-> TRUE, pos |-> p + n, val |-> Slice(d, p, p + n), err |-> ""]
    ELSE [ok |-> FALSE, pos |-> p + n, val |-> <<>>, err |-> "eof"]

(***************************************************************************)
(* ByteReader::read_n_bytes.  The position is advanced before the range is *)
(* looked up, so it is advanced by a failing read as well.                 *)
(***************************************************************************)
ReadNBytes(d, p, n) ==
    LET from == p
        to == p + n
    IN IF to <= DataLen(d)
       THEN [ok |-> TRUE, pos |-> p + n, val |-> Slice(d, from, to), err |-> ""]
       ELSE [ok |-> FALSE, pos |-> p + n, val |-> <<>>, err |-> "eof"]

(***************************************************************************)
(* utils.rs: the fixed-width big-endian decoders.  Each asserts the width  *)
(* of its argument.                                                        *)
(***************************************************************************)
AssertFailed == [ok |-> FALSE, val |-> 0, err |-> "assert_width"]

\* A decoder that takes the last byte as the most significant.
ToU16LittleEndian(bytes) ==
    IF Len(bytes) # 2 THEN AssertFailed
    ELSE [ok |-> TRUE, val |-> 256 * bytes[2] + bytes[1], err |-> ""]

ToU16(bytes) ==
    IF Len(bytes) # 2 THEN AssertFailed
    ELSE [ok |-> TRUE, val |-> 256 * bytes[1] + bytes[2], err |-> ""]

ToU32(bytes) ==
    IF Len(bytes) # 4 THEN AssertFailed
    ELSE [ok |-> TRUE,
          val |-> <<256 * bytes[1] + bytes[2], 256 * bytes[3] + bytes[4]>>,
          err |-> ""]

\* The two's-complement reading of 32 bits.
ToI32(bytes) ==
    IF Len(bytes) # 4 THEN AssertFailed
    ELSE [ok |-> TRUE,
          val |-> (IF bytes[1] >= 128 THEN bytes[1] - 256 ELSE bytes[1]) * 16777216
                  + bytes[2] * 65536 + bytes[3] * 256 + bytes[4],
          err |-> ""]

\* An i64 as <<signed high 32 bits, bits 31..16, bits 15..0>>.
ToI64(bytes) ==
    IF Len(bytes) # 8 THEN AssertFailed
    ELSE [ok |-> TRUE,
          val |-> <<(IF bytes[1] >= 128 THEN bytes[1] - 256 ELSE bytes[1]) * 16777216
                    + bytes[2] * 65536 + bytes[3] * 256 + bytes[4],
                    256 * bytes[5] + bytes[6], 256 * bytes[7] + bytes[8]>>,
          err |-> ""]

\* An f32 as its IEEE-754 fields <<sign, biased exponent, high 7 bits of the fraction, low 16 bits>>.
ToF32(bytes) ==
    IF Len(bytes) # 4 THEN AssertFailed
    ELSE [ok |-> TRUE,
          val |-> <<bytes[1] \div 128,
                    (bytes[1] % 128) * 2 + bytes[2] \div 128,
                    bytes[2] % 128,
                    256 * bytes[3] + bytes[4]>>,
          err |-> ""]

\* An f64 as <<sign, biased exponent, high 4 bits of the fraction, then three 16-bit words>>.
ToF64(bytes) ==
    IF Len(bytes) # 8 THEN AssertFailed
    ELSE [ok |-> TRUE,
          val |-> <<bytes[1] \div 128,
                    (bytes[1] % 128) * 16 + bytes[2] \div 16,
                    bytes[2] % 16,
                    256 * bytes[3] + bytes[4],
                    256 * bytes[5] + bytes[6],
                    256 * bytes[7] + bytes[8]>>,
          err |-> ""]

\* `n as usize` for a u32 n (the inputs of the model keep n below 2^31).
AsUsize(u32) == u32[1] * U16Modulus + u32[2]

\* Bit i of a 16-bit value.
Bit(value, i) == (value \div (2 ^ i)) % 2

\* A test that holds only when the value is the bitmask itself.
BitmaskEquals(value, bitmask) == value = bitmask

\* value & bitmask == bitmask: every bit of the bitmask is a bit of the value.
bitmask_matches(value, bitmask) ==
    \A i \in 0..15 : Bit(bitmask, i) = 1 => Bit(value, i) = 1

(***************************************************************************)
(* Reading one scalar: to_u16(reader.read_n_bytes(2)) and its like.  A     *)
(* result is [ok, pos, val, err]: pos is the reader's position after the   *)
(* call, err names the panic when ok is FALSE.  A panic of an argument is  *)
(* the panic of the call.                                                   *)
(***************************************************************************)
\* A failure handed on by a caller: the position and the panic are kept.
Fail(r) == [ok |-> FALSE, pos |-> r.pos, val |-> 0, err |-> r.err]

Ok(p, v) == [ok |-> TRUE, pos |-> p, val |-> v, err |-> ""]

\* A panic raised at position p.
PanicAt(p, err) == [ok |-> FALSE, pos |-> p, val |-> 0, err |-> err]

\* The decoder's value v of the bytes that r read.
Decoded(r, v) ==
    IF ~r.ok THEN Fail(r)
    ELSE IF v.ok THEN Ok(r.pos, v.val) ELSE PanicAt(r.pos, v.err)

\* reader.read_n_bytes(1)[0]
U8At(r) == IF r.ok THEN Ok(r.pos, r.val[1]) ELSE Fail(r)

\* to_u16(r) and to_u32(r) for the bytes r that the reader returned
U16At(r) == Decoded(r, ToU16(r.val))

U32At(r) == Decoded(r, ToU32(r.val))

RdU8(d, p) == U8At(ReadNBytes(d, p, 1))

RdU16(d, p) == U16At(ReadNBytes(d, p, 2))

RdU32(d, p) == U32At(ReadNBytes(d, p, 4))

\* a | b on 16-bit values
RECURSIVE BitOr(_, _)
BitOr(a, b) ==
    IF a = 0 THEN b
    ELSE IF b = 0 THEN a
    ELSE (IF a % 2 = 1 \/ b % 2 = 1 THEN 1 ELSE 0) + 2 * BitOr(a \div 2, b \div 2)

\* ByteReader::read_u16: (bytes[0] as u16) << 8 | bytes[1] as u16
read_u16(d, p) ==
    LET bytes == ReadNBytes(d, p, 2)
    IN IF bytes.ok THEN Ok(bytes.pos, BitOr(bytes.val[1] * 256, bytes.val[2]))
       ELSE Fail(bytes)

\* ByteReader::read_u32, the u32 as its two 16-bit halves: the bytes shifted by
\* 24 and by 16 make the high half, the other two the low half.
read_u32(d, p) ==
    LET bytes == ReadNBytes(d, p, 4)
    IN IF bytes.ok
       THEN Ok(bytes.pos, <<BitOr(bytes.val[1] * 256, bytes.val[2]),
                            BitOr(bytes.val[3] * 256, bytes.val[4])>>)
       ELSE Fail(bytes)

\* n consecutive to_u16(reader.read_n_bytes(2)) pushed to a vector, for p <= len:
\* the first read that finds fewer than two bytes left panics, after the reader
\* has moved past its two bytes.
RdU16Table(d, p, n) ==
    IF p + 2 * n <= DataLen(d)
    THEN Ok(p + 2 * n, [i \in 1..n |-> 256 * ByteAt(d, p + 2 * i - 2)
                                        + ByteAt(d, p + 2 * i - 1)])
    ELSE PanicAt(p + 2 * ((DataLen(d) - p) \div 2) + 2, "eof")

\* A u16 count n followed by n u16.
TableAfter(d, n) == IF n.ok THEN RdU16Table(d, n.pos, n.val) ELSE Fail(n)

ReadCountedU16(d, p) == TableAfter(d, RdU16(d, p))

\* A push at the front of the vector.
PushFirst(acc, e) == IF e.ok THEN Ok(e.pos, <<e.val>> \o acc.val) ELSE Fail(e)

\* vec.push(e) in a loop: the vector read so far, or the panic of reading e.
Push(acc, e) == IF e.ok THEN Ok(e.pos, Append(acc.val, e.val)) ELSE Fail(e)

(***************************************************************************)
(* Struct literals.  The fields of a struct are read in the order of the   *)
(* code; st is the struct read so far, with the position reached, or the   *)
(* panic that ended the reading.                                            *)
(***************************************************************************)
\* The record with the given field names and values.
Rec(field_names, values) ==
    [k \in {field_names[i] : i \in DOMAIN field_names} |->
        values[CHOOSE i \in DOMAIN field_names : field_names[i] = k]]

\* st with the field `name` read by r.
Merge(st, name, r) ==
    IF r.ok THEN Ok(r.pos, st.val @@ (name :> r.val)) ELSE Fail(r)

\* st with the fields read by r, a table of as many u16.
MergeAll(st, field_names, r) ==
    IF r.ok THEN Ok(r.pos, st.val @@ Rec(field_names, r.val)) ELSE Fail(r)

\* field: to_u16(reader.read_n_bytes(2)), for each name in turn
U16Fields(st, d, field_names) ==
    IF st.ok THEN MergeAll(st, field_names, RdU16Table(d, st.pos, Len(field_names)))
    ELSE st

\* field: to_u32(reader.read_n_bytes(4))
U32Field(st, d, name) == IF st.ok THEN Merge(st, name, RdU32(d, st.pos)) ELSE st

\* field: a vector of u16 whose count is the field count_name read before
U16TableField(st, d, name, count_name) ==
    IF st.ok THEN Merge(st, name, RdU16Table(d, st.pos, st.val[count_name])) ELSE st

\* field: a vector of u16 preceded by its u16 count
CountedU16Field(st, d, name) ==
    IF st.ok THEN Merge(st, name, ReadCountedU16(d, st.pos)) ELSE st

(***************************************************************************)
(* access_flags.rs: the nine flag decoders.  Each from_u16 is a fixed      *)
(* sequence of `if bitmask_matches(value, m) { flags.push(f) }` followed   *)
(* by assert!(flags.len() > 0); the sequence is kept as a table.           *)
(***************************************************************************)
\* ClassAccessFlags::from_u16: the tests of the function, in its order
ClassAccessFlagsTable ==
    <<
       [mask |-> \h0001, flag |-> "AccPublic"],
       [mask |-> \h0010, flag |-> "AccFinal"],
       [mask |-> \h0020, flag |-> "AccSuper"],
       [mask |-> \h0200, flag |-> "AccInterface"],
       [mask |-> \h0400, flag |-> "AccAbstract"],
       [mask |-> \h1000, flag |-> "AccSynthetic"],
       [mask |-> \h2000, flag |-> "AccAnnotation"],
       [mask |-> \h4000, flag |-> "AccEnum"],
       [mask |-> \h8000, flag |-> "AccModule"]
    >>

\* FieldAccessFlags::from_u16: the tests of the function, in its order
FieldAccessFlagsTable ==
    <<
       [mask |-> \h0001, flag |-> "AccPublic"],
       [mask |-> \h0002, flag |-> "AccPrivate"],
       [mask |-> \h0004, flag |-> "AccProtected"],
       [mask |-> \h0008, flag |-> "AccStatic"],
       [mask |-> \h0010, flag |-> "AccFinal"],
       [mask |-> \h0040, flag |-> "AccVolatile"],
       [mask |-> \h0080, flag |-> "AccTransient"],
       [mask |-> \h1000, flag |-> "AccSynthetic"],
       [mask |-> \h4000, flag |-> "AccEnum"]
    >>

\* MethodAccessFlags::from_u16: the tests of the function, in its order
MethodAccessFlagsTable ==
    <<
       [mask |-> \h0001, flag |-> "AccPublic"],
       [mask |-> \h0002, flag |-> "AccPrivate"],
       [mask |-> \h0004, flag |-> "AccProtected"],
       [mask |-> \h0008, flag |-> "AccStatic"],
       [mask |-> \h0010, flag |-> "AccFinal"],
       [mask |-> \h0020, flag |-> "AccSynchronized"],
       [mask |-> \h0040, flag |-> "AccBridge"],
       [mask |-> \h0080, flag |-> "AccVarArgs"],
       [mask |-> \h0100, flag |-> "AccNative"],
       [mask |-> \h0400, flag |-> "AccAbstract"],
       [mask |-> \h0800, flag |-> "AccStrict"],
       [mask |-> \h1000, flag |-> "AccSynthetic"]
    >>

\* NestedClassAccessFlags::from_u16: the tests of the function, in its order
NestedClassAccessFlagsTable ==
    <<
       [mask |-> \h0001, flag |-> "AccPublic"],
       [mask |-> \h0002, flag |-> "AccPrivate"],
       [mask |-> \h0004, flag |-> "AccProtected"],
       [mask |-> \h0008, flag |-> "AccStatic"],
       [mask |-> \h0010, flag |-> "AccFinal"],
       [mask |-> \h0200, flag |-> "AccInterface"],
       [mask |-> \h0400, flag |-> "AccAbstract"],
       [mask |-> \h1000, flag |-> "AccSynthetic"],
       [mask |-> \h2000, flag |-> "AccAnnotation"],
       [mask |-> \h4000, flag |-> "AccEnum"]
    >>

\* MethodParameterAccessFlags::from_u16: the tests of the function, in its order
MethodParameterAccessFlagsTable ==
    <<
       [mask |-> \h0010, flag |-> "AccFinal"],
       [mask |-> \h1000, flag |-> "AccSynthetic"],
       [mask |-> \h8000, flag |-> "AccMandated"]
    >>

\* ModuleFlags::from_u16: the tests of the function, in its order
ModuleFlagsTable ==
    <<
       [mask |-> \h0020, flag |-> "AccOpen"],
       [mask |-> \h1000, flag |-> "AccSynthetic"],
       [mask |-> \h8000, flag |-> "AccMandated"]
    >>

\* ModuleRequiresFlags::from_u16: the tests of the function, in its order
ModuleRequiresFlagsTable ==
    <<
       [mask |-> \h0020, flag |-> "AccTransitive"],
       [mask |-> \h0040, flag |-> "AccStaticPhase"],
       [mask |-> \h1000, flag |-> "AccSynthetic"],
       [mask |-> \h8000, flag |-> "AccMandated"]
    >>

\* ModuleExportsFlags::from_u16: the tests of the function, in its order
ModuleExportsFlagsTable ==
    <<
       [mask |-> \h1000, flag |-> "AccSynthetic"],
       [mask |-> \h8000, flag |-> "AccMandated"]
    >>

\* ModuleOpensFlags::from_u16: the tests of the function, in its order
ModuleOpensFlagsTable ==
    <<
       [mask |-> \h1000, flag |-> "AccSynthetic"],
       [mask |-> \h8000, flag |-> "AccMandated"]
    >>

\* The pushes made in the opposite order of the tests.
PushMatchingReversed(table, value) ==
    LET matching == SelectSeq(table, LAMBDA test : bitmask_matches(value, test.mask))
    IN [i \in 1..Len(matching) |-> matching[Len(matching) + 1 - i].flag]

\* The pushes in the order of the tests, each of the flag of the following test
\* (of the first test after the last).
PushMatchingNext(table, value) ==
    LET places == SelectSeq([i \in DOMAIN table |-> i],
                            LAMBDA i : bitmask_matches(value, table[i].mask))
    IN [j \in 1..Len(places) |-> table[(places[j] % Len(table)) + 1].flag]

\* The pushes of one from_u16, in the order of its tests.
PushMatching(table, value) ==
    LET matching == SelectSeq(table, LAMBDA test : bitmask_matches(value, test.mask))
    IN [i \in 1..Len(matching) |-> matching[i].flag]

\* The pushes, then assert!(flags.len() > 0, ...).
FlagsFromU16(table, value) ==
    LET flags == PushMatching(table, value)
    IN IF Len(flags) > 0
       THEN [ok |-> TRUE, val |-> flags, err |-> ""]
       ELSE [ok |-> FALSE, val |-> <<>>, err |-> "assert_flags"]

FlagDomains ==
    {"ClassAccessFlags", "FieldAccessFlags", "MethodAccessFlags",
     "NestedClassAccessFlags", "MethodParameterAccessFlags", "ModuleFlags",
     "ModuleRequiresFlags", "ModuleExportsFlags", "ModuleOpensFlags"}

\* The table of a domain.
FlagTable(domain) ==
    CASE domain = "ClassAccessFlags" -> ClassAccessFlagsTable
      [] domain = "FieldAccessFlags" -> FieldAccessFlagsTable
      [] domain = "MethodAccessFlags" -> MethodAccessFlagsTable
      [] domain = "NestedClassAccessFlags" -> NestedClassAccessFlagsTable
      [] domain = "MethodParameterAccessFlags" -> MethodParameterAccessFlagsTable
      [] domain = "ModuleFlags" -> ModuleFlagsTable
      [] domain = "ModuleRequiresFlags" -> ModuleRequiresFlagsTable
      [] domain = "ModuleExportsFlags" -> ModuleExportsFlagsTable
      [] domain = "ModuleOpensFlags" -> ModuleOpensFlagsTable

\* <Domain>::from_u16(value)
from_u16(domain, value) == FlagsFromU16(FlagTable(domain), value)

(***************************************************************************)
(* String::from_utf8_lossy, as the standard library decodes: a string is   *)
(* the sequence of its code points, and every maximal invalid part of the  *)
(* input becomes one U+FFFD.                                               *)
(***************************************************************************)
ReplacementCharacter == 65533

IsContinuation(b) == b >= 128 /\ b <= 191

SafeGet(bytes, i) == IF i <= Len(bytes) THEN bytes[i] ELSE 0

Utf8CharWidth(b) ==
    IF b < 128 THEN 1
    ELSE IF b >= 194 /\ b <= 223 THEN 2
    ELSE IF b >= 224 /\ b <= 239 THEN 3
    ELSE IF b >= 240 /\ b <= 244 THEN 4
    ELSE 0

\* The second byte of a three-byte sequence is in the range its first byte allows.
SecondOfThreeOk(b, b2) ==
    \/ b = 224 /\ b2 >= 160 /\ b2 <= 191
    \/ b >= 225 /\ b <= 236 /\ IsContinuation(b2)
    \/ b = 237 /\ b2 >= 128 /\ b2 <= 159
    \/ b >= 238 /\ b <= 239 /\ IsContinuation(b2)

\* The second byte of a four-byte sequence is in the range its first byte allows.
SecondOfFourOk(b, b2) ==
    \/ b = 240 /\ b2 >= 144 /\ b2 <= 191
    \/ b >= 241 /\ b <= 243 /\ IsContinuation(b2)
    \/ b = 244 /\ b2 >= 128 /\ b2 <= 143

RECURSIVE Utf8LossyFrom(_, _)
Utf8LossyFrom(bytes, i) ==
    IF i > Len(bytes) THEN <<>>
    ELSE LET b == bytes[i]
             w == Utf8CharWidth(b)
             b2 == SafeGet(bytes, i + 1)
             b3 == SafeGet(bytes, i + 2)
             b4 == SafeGet(bytes, i + 3)
             bad(n) == <<ReplacementCharacter>> \o Utf8LossyFrom(bytes, i + n)
         IN CASE w = 1 -> <<b>> \o Utf8LossyFrom(bytes, i + 1)
              [] w = 2 ->
                    IF ~IsContinuation(b2) THEN bad(1)
                    ELSE <<(b - 192) * 64 + (b2 - 128)>> \o Utf8LossyFrom(bytes, i + 2)
              [] w = 3 ->
                    IF ~SecondOfThreeOk(b, b2) THEN bad(1)
                    ELSE IF ~IsContinuation(b3) THEN bad(2)
                    ELSE <<(b - 224) * 4096 + (b2 - 128) * 64 + (b3 - 128)>>
                         \o Utf8LossyFrom(bytes, i + 3)
              [] w = 4 ->
                    IF ~SecondOfFourOk(b, b2) THEN bad(1)
                    ELSE IF ~IsContinuation(b3) THEN bad(2)
                    ELSE IF ~IsContinuation(b4) THEN bad(3)
                    ELSE <<(b - 240) * 262144 + (b2 - 128) * 4096
                           + (b3 - 128) * 64 + (b4 - 128)>>
                         \o Utf8LossyFrom(bytes, i + 4)
              [] OTHER -> bad(1)

from_utf8_lossy(bytes) == Utf8LossyFrom(bytes, 1)

(***************************************************************************)
(* constant_pool.rs: one entry of the constant pool.  An entry is          *)
(* [tag, data]; data is the variant's struct and carries its own type,     *)
(* which is what the downcasts of try_cast_into_X test.                    *)
(***************************************************************************)
\* Tag::from_tag
from_tag(tag) ==
    CASE tag = 1 -> Some("ConstantUtf8")
      [] tag = 3 -> Some("ConstantInteger")
      [] tag = 4 -> Some("ConstantFloat")
      [] tag = 5 -> Some("ConstantLong")
      [] tag = 6 -> Some("ConstantDouble")
      [] tag = 7 -> Some("ConstantClass")
      [] tag = 8 -> Some("ConstantString")
      [] tag = 9 -> Some("ConstantFieldRef")
      [] tag = 10 -> Some("ConstantMethodRef")
      [] tag = 11 -> Some("ConstantInterfaceMethodRef")
      [] tag = 12 -> Some("ConstantNameAndType")
      [] tag = 15 -> Some("ConstantMethodHandle")
      [] tag = 16 -> Some("ConstantMethodType")
      [] tag = 17 -> Some("ConstantDynamic")
      [] tag = 18 -> Some("ConstantInvokeDynamic")
      [] tag = 19 -> Some("ConstantModule")
      [] tag = 20 -> Some("ConstantPackage")
      [] OTHER -> None

\* A conversion that takes every kind for REF_getField.
FromKindOfAny(kind) == Some("RefGetField")

\* MethodHandleType::from_kind
from_kind(kind) ==
    CASE kind = 1 -> Some("RefGetField")
      [] kind = 2 -> Some("RefGetStatic")
      [] kind = 3 -> Some("RefPutField")
      [] kind = 4 -> Some("RefPutStatic")
      [] kind = 5 -> Some("RefInvokeVirtual")
      [] kind = 6 -> Some("RefInvokeStatic")
      [] kind = 7 -> Some("RefInvokeSpecial")
      [] kind = 8 -> Some("RefNewInvokeSpecial")
      [] kind = 9 -> Some("RefInvokeInterface")
      [] OTHER -> None


\* The decoder of a value struct.
DecodeValue(type, bytes) ==
    CASE type = "ConstantIntegerInfo" -> ToI32(bytes)
      [] type = "ConstantFloatInfo" -> ToF32(bytes)
      [] type = "ConstantLongInfo" -> ToI64(bytes)
      [] type = "ConstantDoubleInfo" -> ToF64(bytes)

\* A struct of the index and one value decoded from the bytes r.
ValueInfoOf(idx, type, r) ==
    Merge(Ok(r.pos, [type |-> type, constant_pool_index |-> idx]), "value",
          Decoded(r, DecodeValue(type, r.val)))

ReadValueInfo(d, p, idx, type, n) == ValueInfoOf(idx, type, ReadNBytes(d, p, n))

\* String::from_utf8_lossy(r).to_string()
LossyAt(r) == IF r.ok THEN Ok(r.pos, from_utf8_lossy(r.val)) ELSE Fail(r)

\* field string: the `length` bytes that follow
StringField(st, d) ==
    IF st.ok THEN Merge(st, "string", LossyAt(ReadNBytes(d, st.pos, st.val.length)))
    ELSE st

read_data_as_utf8(d, p, idx) ==
    StringField(U16Fields(Ok(p, [type |-> "ConstantUtf8Info",
                                 constant_pool_index |-> idx]),
                          d, <<"length">>), d)

read_data_as_integer(d, p, idx) == ReadValueInfo(d, p, idx, "ConstantIntegerInfo", 4)

read_data_as_float(d, p, idx) == ReadValueInfo(d, p, idx, "ConstantFloatInfo", 4)

read_data_as_long(d, p, idx) == ReadValueInfo(d, p, idx, "ConstantLongInfo", 8)

read_data_as_double(d, p, idx) == ReadValueInfo(d, p, idx, "ConstantDoubleInfo", 8)

\* A struct of the index and u16 fields.
ReadIndexInfo(d, p, idx, type, field_names) ==
    U16Fields(Ok(p, [type |-> type, constant_pool_index |-> idx]), d, field_names)

\* A reader of a Class that takes a second index after the name.
ReadClassWithTwoIndices(d, p, idx) ==
    ReadIndexInfo(d, p, idx, "ConstantClassInfo", <<"name_index", "descriptor_index">>)

read_data_as_class(d, p, idx) ==
    ReadIndexInfo(d, p, idx, "ConstantClassInfo", <<"name_index">>)

read_data_as_string(d, p, idx) ==
    ReadIndexInfo(d, p, idx, "ConstantStringInfo", <<"string_index">>)

read_data_as_field_ref(d, p, idx) ==
    ReadIndexInfo(d, p, idx, "ConstantFieldRefInfo",
                  <<"class_index", "name_and_type_index">>)

read_data_as_method_ref(d, p, idx) ==
    ReadIndexInfo(d, p, idx, "ConstantMethodRefInfo",
                  <<"class_index", "name_and_type_index">>)

read_data_as_interface_method_ref(d, p, idx) ==
    ReadIndexInfo(d, p, idx, "ConstantInterfaceMethodRefInfo",
                  <<"class_index", "name_and_type_index">>)

read_data_as_name_and_type(d, p, idx) ==
    ReadIndexInfo(d, p, idx, "ConstantNameAndTypeInfo",
                  <<"name_index", "descriptor_index">>)

\* MethodHandleType::from_kind(&reader.read_n_bytes(1)[0]); the `_` arm panics.
KindAt(k) ==
    IF ~k.ok THEN Fail(k)
    ELSE IF from_kind(k.val).none THEN PanicAt(k.pos, "unknown_kind")
    ELSE Ok(k.pos, from_kind(k.val).some)

read_data_as_method_handle(d, p, idx) ==
    U16Fields(Merge(Ok(p, [type |-> "ConstantMethodHandleInfo",
                           constant_pool_index |-> idx]),
                    "reference_kind", KindAt(RdU8(d, p))),
              d, <<"reference_index">>)

read_data_as_method_type(d, p, idx) ==
    ReadIndexInfo(d, p, idx, "ConstantMethodTypeInfo", <<"descriptor_index">>)

read_data_as_dynamic(d, p, idx) ==
    ReadIndexInfo(d, p, idx, "ConstantDynamicInfo",
                  <<"bootstrap_method_attr_index", "name_and_type_index">>)

read_data_as_invoke_dynamic(d, p, idx) ==
    ReadIndexInfo(d, p, idx, "ConstantInvokeDynamicInfo",
                  <<"bootstrap_method_attr_index", "name_and_type_index">>)

read_data_as_module(d, p, idx) ==
    ReadIndexInfo(d, p, idx, "ConstantModuleInfo", <<"name_index">>)

read_data_as_package(d, p, idx) ==
    ReadIndexInfo(d, p, idx, "ConstantPackageInfo", <<"name_index">>)

\* The variant's reader, chosen by the tag.
ReadDataAs(tag, d, p, idx) ==
    CASE tag = "ConstantUtf8" -> read_data_as_utf8(d, p, idx)
      [] tag = "ConstantInteger" -> read_data_as_integer(d, p, idx)
      [] tag = "ConstantFloat" -> read_data_as_float(d, p, idx)
      [] tag = "ConstantLong" -> read_data_as_long(d, p, idx)
      [] tag = "ConstantDouble" -> read_data_as_double(d, p, idx)
      [] tag = "ConstantClass" -> read_data_as_class(d, p, idx)
      [] tag = "ConstantString" -> read_data_as_string(d, p, idx)
      [] tag = "ConstantFieldRef" -> read_data_as_field_ref(d, p, idx)
      [] tag = "ConstantMethodRef" -> read_data_as_method_ref(d, p, idx)
      [] tag = "ConstantInterfaceMethodRef" -> read_data_as_interface_method_ref(d, p, idx)
      [] tag = "ConstantNameAndType" -> read_data_as_name_and_type(d, p, idx)
      [] tag = "ConstantMethodHandle" -> read_data_as_method_handle(d, p, idx)
      [] tag = "ConstantMethodType" -> read_data_as_method_type(d, p, idx)
      [] tag = "ConstantDynamic" -> read_data_as_dynamic(d, p, idx)
      [] tag = "ConstantInvokeDynamic" -> read_data_as_invoke_dynamic(d, p, idx)
      [] tag = "ConstantModule" -> read_data_as_module(d, p, idx)
      [] tag = "ConstantPackage" -> read_data_as_package(d, p, idx)

\* The entry [tag, data] of the data that the tag's reader returned.
EntryOf(tag, info) ==
    IF info.ok THEN Ok(info.pos, [tag |-> tag, data |-> info.val]) ELSE Fail(info)

\* Tag::from_tag(&reader.read_n_bytes(1)[0]), whose `_` arm panics, then the data.
EntryAfterTag(d, idx, byte) ==
    IF ~byte.ok THEN Fail(byte)
    ELSE IF from_tag(byte.val).none THEN PanicAt(byte.pos, "unknown_tag")
    ELSE EntryOf(from_tag(byte.val).some,
                 ReadDataAs(from_tag(byte.val).some, d, byte.pos, idx))

\* ConstantPoolInfo::new(reader, index)
ConstantPoolInfoNew(d, p, idx) == EntryAfterTag(d, idx, RdU8(d, p))

\* ConstantPoolContainer::get
PoolGet(pool, i) == IF i \in DOMAIN pool THEN Some(pool[i]) ELSE None

\* A downcast that succeeds whatever the struct is.
CastUnchecked(entry, type) == Some(entry.data)

\* ConstantPoolInfo::try_cast_into_X: the downcast of data to the struct `type`.
TryCastInto(entry, type) ==
    IF entry.data.type = type THEN Some(entry.data) ELSE None

try_cast_into_utf8(entry) == TryCastInto(entry, "ConstantUtf8Info")

try_cast_into_class(entry) == TryCastInto(entry, "ConstantClassInfo")

\* The struct that each accessor try_cast_into_X downcasts to.
DowncastType(accessor) ==
    CASE accessor = "try_cast_into_utf8" -> "ConstantUtf8Info"
      [] accessor = "try_cast_into_integer" -> "ConstantIntegerInfo"
      [] accessor = "try_cast_into_float" -> "ConstantFloatInfo"
      [] accessor = "try_cast_into_long" -> "ConstantLongInfo"
      [] accessor = "try_cast_into_double" -> "ConstantDoubleInfo"
      [] accessor = "try_cast_into_class" -> "ConstantClassInfo"
      [] accessor = "try_cast_into_string" -> "ConstantStringInfo"
      [] accessor = "try_cast_into_field_ref" -> "ConstantFieldRefInfo"
      [] accessor = "try_cast_into_method_ref" -> "ConstantMethodRefInfo"
      [] accessor = "try_cast_into_interface_method_ref" -> "ConstantInterfaceMethodRefInfo"
      [] accessor = "try_cast_into_name_and_type" -> "ConstantNameAndTypeInfo"
      [] accessor = "try_cast_into_method_handle" -> "ConstantMethodHandleInfo"
      [] accessor = "try_cast_into_method_type" -> "ConstantMethodTypeInfo"
      [] accessor = "try_cast_into_dynamic" -> "ConstantDynamicInfo"
      [] accessor = "try_cast_into_invoke_dynamic" -> "ConstantInvokeDynamicInfo"
      [] accessor = "try_cast_into_module" -> "ConstantModuleInfo"
      [] accessor = "try_cast_into_package" -> "ConstantPackageInfo"

\* entry.try_cast_into_X(), for the accessor of that name.
try_cast_into(accessor, entry) == TryCastInto(entry, DowncastType(accessor))

(***************************************************************************)
(* classfile/attribute.rs: the attribute decoder.  An attribute is         *)
(* [attribute_type, data].                                                 *)
(***************************************************************************)
\* The code points of the attribute names that AttributeInfo::new matches.
NameChars(name) ==
    CASE   name = "ConstantValue" ->
            <<67, 111, 110, 115, 116, 97, 110, 116, 86, 97, 108, 117, 101>>
      [] name = "Code" ->
            <<67, 111, 100, 101>>
      [] name = "StackMapTable" ->
            <<83, 116, 97, 99, 107, 77, 97, 112, 84, 97, 98, 108, 101>>
      [] name = "Exceptions" ->
            <<69, 120, 99, 101, 112, 116, 105, 111, 110, 115>>
      [] name = "InnerClasses" ->
            <<73, 110, 110, 101, 114, 67, 108, 97, 115, 115, 101, 115>>
      [] name = "EnclosingMethod" ->
            <<69, 110, 99, 108, 111, 115, 105, 110, 103, 77, 101, 116, 104, 111, 100>>
      [] name = "Synthetic" ->
            <<83, 121, 110, 116, 104, 101, 116, 105, 99>>
      [] name = "Signature" ->
            <<83, 105, 103, 110, 97, 116, 117, 114, 101>>
      [] name = "SourceFile" ->
            <<83, 111, 117, 114, 99, 101, 70, 105, 108, 101>>
      [] name = "SourceDebugExtension" ->
            <<83, 111, 117, 114, 99, 101, 68, 101, 98, 117, 103, 69, 120, 116, 101, 110, 115, 105, 111, 110>>
      [] name = "LineNumberTable" ->
            <<76, 105, 110, 101, 78, 117, 109, 98, 101, 114, 84, 97, 98, 108, 101>>
      [] name = "LocalVariableTable" ->
            <<76, 111, 99, 97, 108, 86, 97, 114, 105, 97, 98, 108, 101, 84, 97, 98, 108, 101>>
      [] name = "LocalVariableTypeTable" ->
            <<76, 111, 99, 97, 108, 86, 97, 114, 105, 97, 98, 108, 101, 84, 121, 112, 101, 84, 97, 98, 108, 101>>
      [] name = "Deprecated" ->
            <<68, 101, 112, 114, 101, 99, 97, 116, 101, 100>>
      [] name = "RuntimeVisibleAnnotations" ->
            <<82, 117, 110, 116, 105, 109, 101, 86, 105, 115, 105, 98, 108, 101, 65, 110, 110, 111, 116, 97, 116, 105, 111, 110, 115>>
      [] name = "RuntimeInvisibleAnnotations" ->
            <<82, 117, 110, 116, 105, 109, 101, 73, 110, 118, 105, 115, 105, 98, 108, 101, 65, 110, 110, 111, 116, 97, 116, 105, 111, 110, 115>>
      [] name = "RuntimeVisibleParameterAnnotations" ->
            <<82, 117, 110, 116, 105, 109, 101, 86, 105, 115, 105, 98, 108, 101, 80, 97, 114, 97, 109, 101, 116, 101, 114, 65, 110, 110, 111, 116, 97, 116, 105, 111, 110, 115>>
      [] name = "RuntimeInvisibleParameterAnnotations" ->
            <<82, 117, 110, 116, 105, 109, 101, 73, 110, 118, 105, 115, 105, 98, 108, 101, 80, 97, 114, 97, 109, 101, 116, 101, 114, 65, 110, 110, 111, 116, 97, 116, 105, 111, 110, 115>>
      [] name = "RuntimeVisibleTypeAnnotations" ->
            <<82, 117, 110, 116, 105, 109, 101, 86, 105, 115, 105, 98, 108, 101, 84, 121, 112, 101, 65, 110, 110, 111, 116, 97, 116, 105, 111, 110, 115>>
      [] name = "RuntimeInvisibleTypeAnnotations" ->
            <<82, 117, 110, 116, 105, 109, 101, 73, 110, 118, 105, 115, 105, 98, 108, 101, 84, 121, 112, 101, 65, 110, 110, 111, 116, 97, 116, 105, 111, 110, 115>>
      [] name = "AnnotationDefault" ->
            <<65, 110, 110, 111, 116, 97, 116, 105, 111, 110, 68, 101, 102, 97, 117, 108, 116>>
      [] name = "BootstrapMethods" ->
            <<66, 111, 111, 116, 115, 116, 114, 97, 112, 77, 101, 116, 104, 111, 100, 115>>
      [] name = "MethodParameters" ->
            <<77, 101, 116, 104, 111, 100, 80, 97, 114, 97, 109, 101, 116, 101, 114, 115>>
      [] name = "Module" ->
            <<77, 111, 100, 117, 108, 101>>
      [] name = "ModulePackages" ->
            <<77, 111, 100, 117, 108, 101, 80, 97, 99, 107, 97, 103, 101, 115>>
      [] name = "ModuleMainClass" ->
            <<77, 111, 100, 117, 108, 101, 77, 97, 105, 110, 67, 108, 97, 115, 115>>
      [] name = "NestHost" ->
            <<78, 101, 115, 116, 72, 111, 115, 116>>
      [] name = "NestMembers" ->
            <<78, 101, 115, 116, 77, 101, 109, 98, 101, 114, 115>>
      [] name = "Record" ->
            <<82, 101, 99, 111, 114, 100>>
      [] name = "PermittedSubclasses" ->
            <<80, 101, 114, 109, 105, 116, 116, 101, 100, 83, 117, 98, 99, 108, 97, 115, 115, 101, 115>>

\* The arms of the match of AttributeInfo::new, in their order.
AttributeTypes ==
    <<"ConstantValue",
      "Code",
      "StackMapTable",
      "Exceptions",
      "InnerClasses",
      "EnclosingMethod",
      "Synthetic",
      "Signature",
      "SourceFile",
      "SourceDebugExtension",
      "LineNumberTable",
      "LocalVariableTable",
      "LocalVariableTypeTable",
      "Deprecated",
      "RuntimeVisibleAnnotations",
      "RuntimeInvisibleAnnotations",
      "RuntimeVisibleParameterAnnotations",
      "RuntimeInvisibleParameterAnnotations",
      "RuntimeVisibleTypeAnnotations",
      "RuntimeInvisibleTypeAnnotations",
      "AnnotationDefault",
      "BootstrapMethods",
      "MethodParameters",
      "Module",
      "ModulePackages",
      "ModuleMainClass",
      "NestHost",
      "NestMembers",
      "Record",
      "PermittedSubclasses">>

\* The string with its upper-case ASCII letters in lower case.
ToLowerCase(string) ==
    [i \in DOMAIN string |-> IF string[i] \in 65..90 THEN string[i] + 32 ELSE string[i]]

\* A match that ignores the case of the letters.
MatchNameIgnoringCase(string) ==
    IF \E k \in 1..Len(AttributeTypes) :
           ToLowerCase(string) = ToLowerCase(NameChars(AttributeTypes[k]))
    THEN Some(AttributeTypes[CHOOSE k \in 1..Len(AttributeTypes) :
                                 ToLowerCase(string) = ToLowerCase(NameChars(AttributeTypes[k]))])
    ELSE None

\* The arm that matches the string, or None for the `_` arm.
MatchName(string) ==
    IF \E k \in 1..Len(AttributeTypes) : string = NameChars(AttributeTypes[k])
    THEN Some(AttributeTypes[CHOOSE k \in 1..Len(AttributeTypes) :
                                 string = NameChars(AttributeTypes[k])])
    ELSE None

\* The attributes whose reader is todo!().
TodoAttributes ==
    {"StackMapTable", "RuntimeVisibleAnnotations", "RuntimeInvisibleAnnotations",
     "RuntimeVisibleParameterAnnotations", "RuntimeInvisibleParameterAnnotations",
     "RuntimeVisibleTypeAnnotations", "RuntimeInvisibleTypeAnnotations",
     "AnnotationDefault"}



\* <Domain>::from_u16(x) for the u16 x read from the file.
FlagsAt(domain, x) == IF x.ok THEN Decoded(x, from_u16(domain, x.val)) ELSE Fail(x)

\* A flag set decoded from the next u16.
RdFlags(domain, d, p) == FlagsAt(domain, RdU16(d, p))

\* field: <Domain>::from_u16(to_u16(reader.read_n_bytes(2)))
FlagsField(st, d, name, domain) ==
    IF st.ok THEN Merge(st, name, RdFlags(domain, d, st.pos)) ELSE st

\* The body of one iteration of a loop that pushes an entry read from u16 fields.
ReadEntry(kind, d, p) ==
    CASE kind = "ExceptionTableEntry" ->
            U16Fields(Ok(p, <<>>), d,
                      <<"start_pc", "end_pc", "handler_pc", "catch_type">>)
      [] kind = "InnerClassEntry" ->
            FlagsField(U16Fields(Ok(p, <<>>), d,
                                 <<"inner_class_info_index", "outer_class_info_index",
                                   "inner_name_index">>),
                       d, "inner_class_access_flags", "NestedClassAccessFlags")
      [] kind = "LineNumberTableEntry" ->
            U16Fields(Ok(p, <<>>), d, <<"start_pc", "line_number">>)
      [] kind = "LocalVariableTableEntry" ->
            U16Fields(Ok(p, <<>>), d,
                      <<"start_pc", "length", "name_index", "descriptor_index", "index">>)
      [] kind = "LocalVariableTypeTableEntry" ->
            U16Fields(Ok(p, <<>>), d,
                      <<"start_pc", "length", "name_index", "signature_index", "index">>)
      [] kind = "BootstrapMethodEntry" ->
            CountedU16Field(U16Fields(Ok(p, <<>>), d, <<"bootstrap_method_ref">>),
                            d, "bootstrap_arguments")
      [] kind = "MethodParameterEntry" ->
            FlagsField(U16Fields(Ok(p, <<>>), d, <<"name_index">>),
                       d, "access_flags", "MethodParameterAccessFlags")
      [] kind = "ModuleRequiresEntry" ->
            U16Fields(FlagsField(U16Fields(Ok(p, <<>>), d, <<"requires_index">>),
                                 d, "requires_flags", "ModuleRequiresFlags"),
                      d, <<"requires_version_index">>)
      [] kind = "ModuleExportsEntry" ->
            CountedU16Field(FlagsField(U16Fields(Ok(p, <<>>), d, <<"exports_index">>),
                                       d, "exports_flags", "ModuleExportsFlags"),
                            d, "exports_to_index")
      [] kind = "ModuleOpensEntry" ->
            CountedU16Field(FlagsField(U16Fields(Ok(p, <<>>), d, <<"opens_index">>),
                                       d, "opens_flags", "ModuleOpensFlags"),
                            d, "opens_to_index")
      [] kind = "ModuleProvidesEntry" ->
            U16TableField(U16Fields(Ok(p, <<>>), d,
                                    <<"provides_index", "provides_with_count">>),
                          d, "provides_with_index", "provides_with_count")

\* `for _ in 0..n { entries.push(<entry>) }`: acc is the vector pushed so far.
RECURSIVE ReadEntries(_, _, _, _)
ReadEntries(kind, d, acc, n) ==
    IF n = 0 \/ ~acc.ok THEN acc
    ELSE ReadEntries(kind, d, Push(acc, ReadEntry(kind, d, acc.pos)), n - 1)

\* The entries that follow their count n.
EntriesAfter(kind, d, n) ==
    IF n.ok THEN ReadEntries(kind, d, Ok(n.pos, <<>>), n.val) ELSE Fail(n)

\* A u16 count followed by count entries.
ReadCounted(kind, d, p) == EntriesAfter(kind, d, RdU16(d, p))

\* field: a vector of entries preceded by its u16 count
CountedField(st, d, name, kind) ==
    IF st.ok THEN Merge(st, name, ReadCounted(kind, d, st.pos)) ELSE st

\* The fields every attribute struct starts with.
Header(type, name_index, length) ==
    [type |-> type, attribute_name_index |-> name_index, attribute_length |-> length]

\* A reader without the assertion.
AssertLengthSkipped(st) == st

\* assert_eq!(attribute_length, 2, ..)
AssertLength(st) ==
    IF st.val.attribute_length # <<0, 2>> THEN PanicAt(st.pos, "assert_length") ELSE st

read_data_as_constant_value(d, p, name_index, length) ==
    U16Fields(AssertLength(Ok(p, Header("AttributeConstantValue", name_index, length))),
              d, <<"constantvalue_index">>)

read_data_as_exceptions(d, p, name_index, length) ==
    U16TableField(U16Fields(Ok(p, Header("AttributeExceptions", name_index, length)),
                            d, <<"number_of_exceptions">>),
                  d, "exception_index_table", "number_of_exceptions")

read_data_as_inner_classes(d, p, name_index, length) ==
    CountedField(Ok(p, Header("AttributeInnerClasses", name_index, length)),
                 d, "classes", "InnerClassEntry")

read_data_as_enclosing_method(d, p, name_index, length) ==
    U16Fields(Ok(p, Header("AttributeEnclosingMethod", name_index, length)),
              d, <<"class_index", "method_index">>)

read_data_as_synthetic(p, name_index, length) ==
    Ok(p, Header("AttributeSynthetic", name_index, length))

read_data_as_signature(d, p, name_index, length) ==
    U16Fields(Ok(p, Header("AttributeSignature", name_index, length)),
              d, <<"signature_index">>)

read_data_as_source_file(d, p, name_index, length) ==
    U16Fields(Ok(p, Header("AttributeSourceFile", name_index, length)),
              d, <<"sourcefile_index">>)

read_data_as_source_debug_extension(d, p, name_index, length) ==
    Merge(Ok(p, Header("AttributeSourceDebugExtension", name_index, length)),
          "debug_extension", ReadNBytes(d, p, AsUsize(length)))

read_data_as_line_number_table(d, p, name_index, length) ==
    CountedField(Ok(p, Header("AttributeLineNumberTable", name_index, length)),
                 d, "line_number_table", "LineNumberTableEntry")

read_data_as_local_variable_table(d, p, name_index, length) ==
    CountedField(Ok(p, Header("AttributeLocalVariableTable", name_index, length)),
                 d, "local_variable_table", "LocalVariableTableEntry")

read_data_as_local_variable_type_table(d, p, name_index, length) ==
    CountedField(Ok(p, Header("AttributeLocalVariableTypeTable", name_index, length)),
                 d, "local_variable_type_table", "LocalVariableTypeTableEntry")

read_data_as_deprecated(p, name_index, length) ==
    Ok(p, Header("AttributeDeprecated", name_index, length))

read_data_as_bootstrap_methods(d, p, name_index, length) ==
    CountedField(Ok(p, Header("AttributeBootstrapMethods", name_index, length)),
                 d, "bootstrap_methods", "BootstrapMethodEntry")

read_data_as_method_parameters(d, p, name_index, length) ==
    CountedField(Ok(p, Header("AttributeMethodParameters", name_index, length)),
                 d, "parameters", "MethodParameterEntry")

\* The head of a Module attribute: name, flags, version.
ReadModuleHead(st, d) ==
    U16Fields(FlagsField(U16Fields(st, d, <<"module_name_index">>),
                         d, "module_flags", "ModuleFlags"),
              d, <<"module_version_index">>)

\* The tables of a Module attribute, read one after the other.
ReadModuleTables(st, d) ==
    CountedField(
        CountedU16Field(
            CountedField(
                CountedField(
                    CountedField(st, d, "requires", "ModuleRequiresEntry"),
                    d, "exports", "ModuleExportsEntry"),
                d, "opens", "ModuleOpensEntry"),
            d, "uses_index"),
        d, "provides", "ModuleProvidesEntry")

read_data_as_attribute_module(d, p, name_index, length) ==
    ReadModuleTables(
        ReadModuleHead(Ok(p, Header("AttributeModule", name_index, length)), d), d)

read_data_as_module_packages(d, p, name_index, length) ==
    CountedU16Field(Ok(p, Header("AttributeModulePackages", name_index, length)),
                    d, "package_index")

read_data_as_module_main_class(d, p, name_index, length) ==
    U16Fields(Ok(p, Header("AttributeModuleMainClass", name_index, length)),
              d, <<"main_class_index">>)

read_data_as_nest_host(d, p, name_index, length) ==
    U16Fields(Ok(p, Header("AttributeNestHost", name_index, length)),
              d, <<"host_class_index">>)

read_data_as_nest_members(d, p, name_index, length) ==
    CountedU16Field(Ok(p, Header("AttributeNestMembers", name_index, length)),
                    d, "classes")

read_data_as_permitted_subclasses(d, p, name_index, length) ==
    CountedU16Field(Ok(p, Header("AttributePermittedSubclasses", name_index, length)),
                    d, "classes")

RECURSIVE AttributeInfoNew(_, _, _)
RECURSIVE ReadAttributeList(_, _, _, _)
RECURSIVE ReadRecordComponents(_, _, _, _)

\* `for _ in 0..n { attributes.push(AttributeInfo::new(reader, constant_pool)) }`
ReadAttributeList(d, acc, pool, n) ==
    IF n = 0 \/ ~acc.ok THEN acc
    ELSE ReadAttributeList(d, Push(acc, AttributeInfoNew(d, acc.pos, pool)), pool, n - 1)

\* The attributes that follow their count n.
AttributesAfter(d, pool, n) ==
    IF n.ok THEN ReadAttributeList(d, Ok(n.pos, <<>>), pool, n.val) ELSE Fail(n)

\* attributes_count (u16) and that many attributes: the read_attributes of
\* FieldInfo and MethodInfo, and the tail of a Code attribute and of a record component.
ReadAttributes(d, p, pool) == AttributesAfter(d, pool, RdU16(d, p))

\* field: the attributes preceded by their u16 count
AttributesField(st, d, name, pool) ==
    IF st.ok THEN Merge(st, name, ReadAttributes(d, st.pos, pool)) ELSE st

\* The code_length bytes that follow the u32 code_length n.
BytesAfter(d, n) == IF n.ok THEN ReadNBytes(d, n.pos, AsUsize(n.val)) ELSE Fail(n)

\* A code field that reads the bytes and keeps none.
CodeFieldDropped(st, d) ==
    IF st.ok
    THEN Merge(st, "code",
               LET bytes == BytesAfter(d, RdU32(d, st.pos))
               IN IF bytes.ok THEN Ok(bytes.pos, <<>>) ELSE bytes)
    ELSE st

\* field code: code_length (u32) and that many bytes
CodeField(st, d) ==
    IF st.ok THEN Merge(st, "code", BytesAfter(d, RdU32(d, st.pos))) ELSE st

read_data_as_code(d, p, name_index, length, pool) ==
    AttributesField(
        CountedField(
            CodeField(U16Fields(Ok(p, Header("AttributeCode", name_index, length)),
                                d, <<"max_stack", "max_locals">>),
                      d),
            d, "exception_table", "ExceptionTableEntry"),
        d, "attributes", pool)

\* One RecordComponentInfo.
ReadRecordComponent(d, p, pool) ==
    AttributesField(U16Fields(Ok(p, <<>>), d, <<"name_index", "descriptor_index">>),
                    d, "attributes", pool)

\* The components loop of read_data_as_record.
ReadRecordComponents(d, acc, pool, n) ==
    IF n = 0 \/ ~acc.ok THEN acc
    ELSE ReadRecordComponents(d, Push(acc, ReadRecordComponent(d, acc.pos, pool)),
                              pool, n - 1)

\* The components that follow their count n.
ComponentsAfter(d, pool, n) ==
    IF n.ok THEN ReadRecordComponents(d, Ok(n.pos, <<>>), pool, n.val) ELSE Fail(n)

read_data_as_record(d, p, name_index, length, pool) ==
    Merge(Ok(p, Header("AttributeRecord", name_index, length)),
          "components", ComponentsAfter(d, pool, RdU16(d, p)))

\* The reader that the matched arm calls.
ReadAttributeData(type, d, p, name_index, length, pool) ==
    CASE type = "ConstantValue" -> read_data_as_constant_value(d, p, name_index, length)
      [] type = "Code" -> read_data_as_code(d, p, name_index, length, pool)
      [] type = "Exceptions" -> read_data_as_exceptions(d, p, name_index, length)
      [] type = "InnerClasses" -> read_data_as_inner_classes(d, p, name_index, length)
      [] type = "EnclosingMethod" -> read_data_as_enclosing_method(d, p, name_index, length)
      [] type = "Synthetic" -> read_data_as_synthetic(p, name_index, length)
      [] type = "Signature" -> read_data_as_signature(d, p, name_index, length)
      [] type = "SourceFile" -> read_data_as_source_file(d, p, name_index, length)
      [] type = "SourceDebugExtension" ->
            read_data_as_source_debug_extension(d, p, name_index, length)
      [] type = "LineNumberTable" -> read_data_as_line_number_table(d, p, name_index, length)
      [] type = "LocalVariableTable" ->
            read_data_as_local_variable_table(d, p, name_index, length)
      [] type = "LocalVariableTypeTable" ->
            read_data_as_local_variable_type_table(d, p, name_index, length)
      [] type = "Deprecated" -> read_data_as_deprecated(p, name_index, length)
      [] type = "BootstrapMethods" -> read_data_as_bootstrap_methods(d, p, name_index, length)
      [] type = "MethodParameters" -> read_data_as_method_parameters(d, p, name_index, length)
      [] type = "Module" -> read_data_as_attribute_module(d, p, name_index, length)
      [] type = "ModulePackages" -> read_data_as_module_packages(d, p, name_index, length)
      [] type = "ModuleMainClass" -> read_data_as_module_main_class(d, p, name_index, length)
      [] type = "NestHost" -> read_data_as_nest_host(d, p, name_index, length)
      [] type = "NestMembers" -> read_data_as_nest_members(d, p, name_index, length)
      [] type = "Record" -> read_data_as_record(d, p, name_index, length, pool)
      [] type = "PermittedSubclasses" ->
            read_data_as_permitted_subclasses(d, p, name_index, length)
      [] type \in TodoAttributes -> PanicAt(p, "todo")

\* attribute_name_index and attribute_length, read before the name is looked up.
ReadAttributeHeader(d, p) ==
    U32Field(U16Fields(Ok(p, <<>>), d, <<"attribute_name_index">>), d, "attribute_length")

\* A lookup of the name that takes the string of an entry of any type (the empty
\* string when the entry has none).
AttributeNameOfAnyEntry(h, pool) ==
    IF ~h.ok THEN Fail(h)
    ELSE IF PoolGet(pool, h.val.attribute_name_index).none
    THEN PanicAt(h.pos, "attribute_name_missing")
    ELSE IF try_cast_into_utf8(pool[h.val.attribute_name_index]).none
    THEN Ok(h.pos, <<>>)
    ELSE Ok(h.pos, pool[h.val.attribute_name_index].data.string)

\* constant_pool.get(&attribute_name_index).expect(..).try_cast_into_utf8().expect(..)
AttributeNameOf(h, pool) ==
    IF ~h.ok THEN Fail(h)
    ELSE IF PoolGet(pool, h.val.attribute_name_index).none
    THEN PanicAt(h.pos, "attribute_name_missing")
    ELSE IF try_cast_into_utf8(pool[h.val.attribute_name_index]).none
    THEN PanicAt(h.pos, "attribute_name_not_utf8")
    ELSE Ok(h.pos, pool[h.val.attribute_name_index].data.string)

\* The arm of `match attribute_name.string.as_str()`; the `_` arm panics.
AttributeTypeOf(name) ==
    IF ~name.ok THEN Fail(name)
    ELSE IF MatchName(name.val).none THEN PanicAt(name.pos, "unknown_attribute")
    ELSE Ok(name.pos, MatchName(name.val).some)

\* The attribute [attribute_type, data] of the data that the arm's reader returned.
AttributeOf(type, info) ==
    IF info.ok THEN Ok(info.pos, [attribute_type |-> type, data |-> info.val])
    ELSE Fail(info)

\* The matched arm: the attribute read after the header h.
ReadMatched(d, pool, h, type) ==
    IF ~type.ok THEN Fail(type)
    ELSE AttributeOf(type.val,
                     ReadAttributeData(type.val, d, h.pos, h.val.attribute_name_index,
                                       h.val.attribute_length, pool))

\* The attribute that follows its header h.
AttributeAfterHeader(d, pool, h) ==
    ReadMatched(d, pool, h, AttributeTypeOf(AttributeNameOf(h, pool)))

\* AttributeInfo::new(reader, constant_pool)
AttributeInfoNew(d, p, pool) == AttributeAfterHeader(d, pool, ReadAttributeHeader(d, p))

(***************************************************************************)
(* field.rs and method.rs: access flags, name_index, descriptor_index and  *)
(* the attributes.                                                         *)
(***************************************************************************)
MemberInfoNew(domain, d, p, pool) ==
    AttributesField(
        U16Fields(FlagsField(Ok(p, <<>>), d, "access_flags", domain),
                  d, <<"name_index", "descriptor_index">>),
        d, "attributes", pool)

\* FieldInfo::new(reader, constant_pool)
FieldInfoNew(d, p, pool) == MemberInfoNew("FieldAccessFlags", d, p, pool)

\* MethodInfo::new(reader, constant_pool)
MethodInfoNew(d, p, pool) == MemberInfoNew("MethodAccessFlags", d, p, pool)

(***************************************************************************)
(* class_file.rs: ClassFile::new, one action per statement; the loops of   *)
(* read_constant_pool, read_interfaces, read_fields, read_methods and      *)
(* read_attributes take one action per iteration.                          *)
(***************************************************************************)
\* MAGIC_NUMBER: u32 = 0xCAFEBABE
MAGIC_NUMBER == <<\hCAFE, \hBABE>>

\* The variables of the decoded model and of the loops, for UNCHANGED.
modelVars == <<magic, minor_version, major_version, constant_pool_count, index,
               constant_pool, access_flags, this_class, super_class, interfaces,
               fields, methods, attributes, constant_pool_index, remaining>>

\* A failure that is recorded while the statement is run again from where the
\* reader stopped.
PanickedAndRetried(r) ==
    /\ pc' = pc
    /\ panic' = r.err
    /\ position' = r.pos
    /\ UNCHANGED <<data, ret, modelVars>>

\* A panic unwinds ClassFile::new: nothing is returned, the reader keeps its position.
Panicked(r) ==
    /\ pc' = "panicked"
    /\ panic' = r.err
    /\ position' = r.pos
    /\ UNCHANGED <<data, ret, modelVars>>

\* A statement that goes on to `next` and leaves the reader where it was.
AdvanceInPlace(r, next) ==
    /\ pc' = next
    /\ position' = position
    /\ UNCHANGED <<data, panic, ret>>

\* The statement read r and control goes on to `next`.
Advance(r, next) ==
    /\ pc' = next
    /\ position' = r.pos
    /\ UNCHANGED <<data, panic, ret>>

\* BTreeMap::insert(key, value): an entry already under the key is replaced.
Insert(pool, key, value) == (key :> value) @@ pool

\* A check of the magic number that accepts any value.
AssertMagicSkipped(x) == IF ~x.ok THEN Fail(x) ELSE x

\* assert_eq!(magic_number, MAGIC_NUMBER, ..)
AssertMagic(x) ==
    IF ~x.ok THEN Fail(x)
    ELSE IF x.val # MAGIC_NUMBER THEN PanicAt(x.pos, "bad_magic") ELSE x

\* Self::read_magic_number(reader)
read_magic_number(d, p) == AssertMagic(RdU32(d, p))

\* The offset of an entry: Long and Double "occupy" two indices.
EntryOffset(info) == IF info.tag \in {"ConstantLong", "ConstantDouble"} THEN 2 ELSE 1

\* The outcomes of `index += offset` on a u16: the sum when it fits; when it does
\* not, a panic (a build with overflow checks) or the sum modulo 2^16 (without).
IndexAfter(i, offset) ==
    IF i + offset < U16Modulus
    THEN {[ok |-> TRUE, val |-> i + offset]}
    ELSE {[ok |-> FALSE, val |-> i], [ok |-> TRUE, val |-> (i + offset) % U16Modulus]}

\* constant_pool.get(&i).expect(..) for the index i read from the file.
EntryAt(pool, i) ==
    IF ~i.ok THEN Fail(i)
    ELSE IF PoolGet(pool, i.val).none THEN PanicAt(i.pos, "pool_entry_missing")
    ELSE Ok(i.pos, PoolGet(pool, i.val).some)

\* match entry.try_cast_into_class() { Some(class) => class.clone(), None => panic!(..) }
ClassOf(entry) ==
    IF ~entry.ok THEN Fail(entry)
    ELSE IF try_cast_into_class(entry.val).none THEN PanicAt(entry.pos, "not_a_class")
    ELSE Ok(entry.pos, try_cast_into_class(entry.val).some)

\* A lookup of the class that leaves the reader where it was.
ReadThisClassInPlace(d, p, pool) ==
    IF ClassOf(EntryAt(pool, RdU16(d, p))).ok
    THEN Ok(p, ClassOf(EntryAt(pool, RdU16(d, p))).val)
    ELSE ClassOf(EntryAt(pool, RdU16(d, p)))

\* Self::read_this_class(reader, &constant_pool); read_interfaces does the same
\* for each interface.
read_this_class(d, p, pool) == ClassOf(EntryAt(pool, RdU16(d, p)))

\* The Option made of the entry: try_cast_into_class(), a clone when it is Some.
SuperClassOf(entry) ==
    IF entry.ok THEN Ok(entry.pos, try_cast_into_class(entry.val)) ELSE Fail(entry)

\* `if index == 0 { return None; }`, then the entry of the index.
SuperClassAt(pool, i) ==
    IF ~i.ok THEN Fail(i)
    ELSE IF i.val = 0 THEN Ok(i.pos, None)
    ELSE SuperClassOf(EntryAt(pool, i))

\* Self::read_super_class(reader, &constant_pool)
read_super_class(d, p, pool) == SuperClassAt(pool, RdU16(d, p))

\* The u16 at position p (0 when it cannot be read): the index a statement read.
IndexReadAt(d, p) == IF p + 2 <= DataLen(d) THEN 256 * ByteAt(d, p) + ByteAt(d, p + 1) ELSE 0

\* `let constant_pool_index = to_u16(reader.read_n_bytes(2));` in the function fn.
IndexRead(indices, fn, i) == [indices EXCEPT ![fn] = Append(@, i)]

\* The statement after a loop that is entered whether or not an iteration is to go.
LoopAlways(left, loop, next) == loop

\* The statement after a loop that has `left` iterations to go.
LoopOr(left, loop, next) == IF left > 0 THEN loop ELSE next

\* let magic = Self::read_magic_number(reader);
ReadMagicNumber ==
    /\ pc = "read_magic_number"
    /\ LET r == read_magic_number(data, position)
       IN IF ~r.ok THEN Panicked(r)
          ELSE /\ Advance(r, "read_minor_version")
               /\ magic' = r.val
               /\ UNCHANGED <<minor_version, major_version, constant_pool_count, index,
                              constant_pool, access_flags, this_class, super_class,
                              interfaces, fields, methods, attributes,
                              constant_pool_index, remaining>>

\* let minor_version = Self::read_u16(reader);
ReadMinorVersion ==
    /\ pc = "read_minor_version"
    /\ LET r == RdU16(data, position)
       IN IF ~r.ok THEN Panicked(r)
          ELSE /\ Advance(r, "read_major_version")
               /\ minor_version' = r.val
               /\ UNCHANGED <<magic, major_version, constant_pool_count, index,
                              constant_pool, access_flags, this_class, super_class,
                              interfaces, fields, methods, attributes,
                              constant_pool_index, remaining>>

\* let major_version = Self::read_u16(reader);
ReadMajorVersion ==
    /\ pc = "read_major_version"
    /\ LET r == RdU16(data, position)
       IN IF ~r.ok THEN Panicked(r)
          ELSE /\ Advance(r, "read_constant_pool")
               /\ major_version' = r.val
               /\ UNCHANGED <<magic, minor_version, constant_pool_count, index,
                              constant_pool, access_flags, this_class, super_class,
                              interfaces, fields, methods, attributes,
                              constant_pool_index, remaining>>

\* read_constant_pool up to the loop: the count, an empty map, index = 1.
ReadConstantPoolCount ==
    /\ pc = "read_constant_pool"
    /\ LET r == RdU16(data, position)
       IN IF ~r.ok THEN Panicked(r)
          ELSE /\ Advance(r, LoopOr(r.val - 1, "constant_pool_loop", "read_access_flags"))
               /\ constant_pool_count' = r.val
               /\ constant_pool' = <<>>
               /\ index' = 1
               /\ UNCHANGED <<magic, minor_version, major_version, access_flags,
                              this_class, super_class, interfaces, fields, methods,
                              attributes, constant_pool_index, remaining>>

\* The end of an iteration of the loop of read_constant_pool: the entry that r
\* read is inserted under the index, then `index += offset` with the outcome next.
StoreEntry(r, next) ==
    IF ~next.ok THEN Panicked(PanicAt(r.pos, "add_overflow"))
    ELSE /\ Advance(r, LoopOr(constant_pool_count - next.val,
                              "constant_pool_loop", "read_access_flags"))
         /\ constant_pool' = Insert(constant_pool, index, r.val)
         /\ index' = next.val
         /\ UNCHANGED <<magic, minor_version, major_version, constant_pool_count,
                        access_flags, this_class, super_class, interfaces, fields,
                        methods, attributes, constant_pool_index, remaining>>

\* One iteration of `while index < constant_pool_count`.
ReadConstantPoolEntry ==
    /\ pc = "constant_pool_loop"
    /\ index < constant_pool_count
    /\ LET r == ConstantPoolInfoNew(data, position, index)
       IN IF ~r.ok THEN Panicked(r)
          ELSE \E next \in IndexAfter(index, EntryOffset(r.val)) : StoreEntry(r, next)

\* let access_flags = Self::read_access_flags(reader);
ReadAccessFlags ==
    /\ pc = "read_access_flags"
    /\ LET r == RdFlags("ClassAccessFlags", data, position)
       IN IF ~r.ok THEN Panicked(r)
          ELSE /\ Advance(r, "read_this_class")
               /\ access_flags' = r.val
               /\ UNCHANGED <<magic, minor_version, major_version, constant_pool_count,
                              index, constant_pool, this_class, super_class,
                              interfaces, fields, methods, attributes,
                              constant_pool_index, remaining>>

\* let this_class = Self::read_this_class(reader, &constant_pool);
ReadThisClass ==
    /\ pc = "read_this_class"
    /\ LET r == read_this_class(data, position, constant_pool)
       IN IF ~r.ok THEN Panicked(r)
          ELSE /\ Advance(r, "read_super_class")
               /\ this_class' = r.val
               /\ constant_pool_index' = IndexRead(constant_pool_index, "read_this_class",
                                                 IndexReadAt(data, position))
               /\ UNCHANGED <<magic, minor_version, major_version, constant_pool_count,
                              index, constant_pool, access_flags, super_class,
                              interfaces, fields, methods, attributes, remaining>>

\* let super_class = Self::read_super_class(reader, &constant_pool);
ReadSuperClass ==
    /\ pc = "read_super_class"
    /\ LET r == read_super_class(data, position, constant_pool)
       IN IF ~r.ok THEN Panicked(r)
          ELSE /\ Advance(r, "read_interfaces")
               /\ super_class' = r.val
               /\ constant_pool_index' = IndexRead(constant_pool_index, "read_super_class",
                                                 IndexReadAt(data, position))
               /\ UNCHANGED <<magic, minor_version, major_version, constant_pool_count,
                              index, constant_pool, access_flags, this_class,
                              interfaces, fields, methods, attributes, remaining>>

\* read_interfaces up to the loop: the count and an empty vector.
ReadInterfacesCount ==
    /\ pc = "read_interfaces"
    /\ LET r == RdU16(data, position)
       IN IF ~r.ok THEN Panicked(r)
          ELSE /\ Advance(r, LoopOr(r.val, "interfaces_loop", "read_fields"))
               /\ interfaces' = <<>>
               /\ remaining' = r.val
               /\ UNCHANGED <<magic, minor_version, major_version, constant_pool_count,
                              index, constant_pool, access_flags, this_class,
                              super_class, fields, methods, attributes,
                              constant_pool_index>>

\* One iteration of `for _ in 0..interfaces_count`.
ReadInterface ==
    /\ pc = "interfaces_loop"
    /\ remaining > 0
    /\ LET r == read_this_class(data, position, constant_pool)
       IN IF ~r.ok THEN Panicked(r)
          ELSE /\ Advance(r, LoopOr(remaining - 1, "interfaces_loop", "read_fields"))
               /\ interfaces' = Append(interfaces, r.val)
               /\ remaining' = remaining - 1
               /\ constant_pool_index' = IndexRead(constant_pool_index, "read_interfaces",
                                                 IndexReadAt(data, position))
               /\ UNCHANGED <<magic, minor_version, major_version, constant_pool_count,
                              index, constant_pool, access_flags, this_class,
                              super_class, fields, methods, attributes>>

\* read_fields up to the loop.
ReadFieldsCount ==
    /\ pc = "read_fields"
    /\ LET r == RdU16(data, position)
       IN IF ~r.ok THEN Panicked(r)
          ELSE /\ Advance(r, LoopOr(r.val, "fields_loop", "read_methods"))
               /\ fields' = <<>>
               /\ remaining' = r.val
               /\ UNCHANGED <<magic, minor_version, major_version, constant_pool_count,
                              index, constant_pool, access_flags, this_class,
                              super_class, interfaces, methods, attributes,
                              constant_pool_index>>

\* One iteration of `for _ in 0..fields_count`: fields.push(FieldInfo::new(..)).
ReadField ==
    /\ pc = "fields_loop"
    /\ remaining > 0
    /\ LET r == FieldInfoNew(data, position, constant_pool)
       IN IF ~r.ok THEN Panicked(r)
          ELSE /\ Advance(r, LoopOr(remaining - 1, "fields_loop", "read_methods"))
               /\ fields' = Append(fields, r.val)
               /\ remaining' = remaining - 1
               /\ UNCHANGED <<magic, minor_version, major_version, constant_pool_count,
                              index, constant_pool, access_flags, this_class,
                              super_class, interfaces, methods, attributes,
                              constant_pool_index>>

\* read_methods up to the loop.
ReadMethodsCount ==
    /\ pc = "read_methods"
    /\ LET r == RdU16(data, position)
       IN IF ~r.ok THEN Panicked(r)
          ELSE /\ Advance(r, LoopOr(r.val, "methods_loop", "read_attributes"))
               /\ methods' = <<>>
               /\ remaining' = r.val
               /\ UNCHANGED <<magic, minor_version, major_version, constant_pool_count,
                              index, constant_pool, access_flags, this_class,
                              super_class, interfaces, fields, attributes,
                              constant_pool_index>>

\* One iteration of `for _ in 0..methods_count`: methods.push(MethodInfo::new(..)).
ReadMethod ==
    /\ pc = "methods_loop"
    /\ remaining > 0
    /\ LET r == MethodInfoNew(data, position, constant_pool)
       IN IF ~r.ok THEN Panicked(r)
          ELSE /\ Advance(r, LoopOr(remaining - 1, "methods_loop", "read_attributes"))
               /\ methods' = Append(methods, r.val)
               /\ remaining' = remaining - 1
               /\ UNCHANGED <<magic, minor_version, major_version, constant_pool_count,
                              index, constant_pool, access_flags, this_class,
                              super_class, interfaces, fields, attributes,
                              constant_pool_index>>

\* read_attributes up to the loop; with no attribute to read, Self {..} is returned.
ReadAttributesCount ==
    /\ pc = "read_attributes"
    /\ LET r == RdU16(data, position)
       IN IF ~r.ok THEN Panicked(r)
          ELSE /\ Advance(r, LoopOr(r.val, "attributes_loop", "done"))
               /\ attributes' = <<>>
               /\ remaining' = r.val
               /\ UNCHANGED <<magic, minor_version, major_version, constant_pool_count,
                              index, constant_pool, access_flags, this_class,
                              super_class, interfaces, fields, methods,
                              constant_pool_index>>

\* One iteration of `for _ in 0..attributes_count`; after the last, Self {..} is returned.
ReadAttribute ==
    /\ pc = "attributes_loop"
    /\ remaining > 0
    /\ LET r == AttributeInfoNew(data, position, constant_pool)
       IN IF ~r.ok THEN Panicked(r)
          ELSE /\ Advance(r, LoopOr(remaining - 1, "attributes_loop", "done"))
               /\ attributes' = Append(attributes, r.val)
               /\ remaining' = remaining - 1
               /\ UNCHANGED <<magic, minor_version, major_version, constant_pool_count,
                              index, constant_pool, access_flags, this_class,
                              super_class, interfaces, fields, methods,
                              constant_pool_index>>

(***************************************************************************)
(* The class files that ClassFile::new is run on: a well-formed file, the  *)
(* same file with up to MaxDeviations of its sections replaced by a        *)
(* variant, and every proper prefix of the well-formed file.               *)
(***************************************************************************)
\* A u16 in big-endian order.
U16Bytes(n) == <<n \div 256, n % 256>>

\* A u32 below 2^16 in big-endian order.
U32Bytes(n) == <<0, 0>> \o U16Bytes(n)

RECURSIVE Concat(_)
Concat(seqs) == IF seqs = <<>> THEN <<>> ELSE Head(seqs) \o Concat(Tail(seqs))

\* Constant-pool entries as the file holds them: the tag byte, then the data.
Utf8Const(chars) == <<1>> \o U16Bytes(Len(chars)) \o chars
IntegerConst(n) == <<3>> \o U32Bytes(n)
FloatConst(n) == <<4>> \o U32Bytes(n)
LongConst(n) == <<5>> \o U32Bytes(0) \o U32Bytes(n)
DoubleConst(n) == <<6>> \o U32Bytes(n) \o U32Bytes(0)
ClassConst(name_index) == <<7>> \o U16Bytes(name_index)
StringConst(string_index) == <<8>> \o U16Bytes(string_index)
RefConst(tag, a, b) == <<tag>> \o U16Bytes(a) \o U16Bytes(b)
MethodHandleConst(kind, reference_index) == <<15, kind>> \o U16Bytes(reference_index)
IndexConst(tag, i) == <<tag>> \o U16Bytes(i)

\* The code points of "sourcefile": the name SourceFile in lower case.
LowerCaseSourceFile == <<115, 111, 117, 114, 99, 101, 102, 105, 108, 101>>

\* The code points of "Foo", a name that no arm of AttributeInfo::new matches.
FooChars == <<70, 111, 111>>

\* The well-formed pool: entry k of the sequence is read at the index written
\* beside it; 4 and 13 are the indices skipped after the Long and the Double.
BaselinePool ==
    << Utf8Const(NameChars("Code")),               \* 1
       ClassConst(1),                              \* 2
       LongConst(7),                               \* 3
       Utf8Const(NameChars("SourceFile")),         \* 5
       ClassConst(5),                              \* 6
       Utf8Const(NameChars("LineNumberTable")),    \* 7
       Utf8Const(NameChars("Synthetic")),          \* 8
       Utf8Const(NameChars("ConstantValue")),      \* 9
       Utf8Const(FooChars),                        \* 10
       IntegerConst(42),                           \* 11
       DoubleConst(16368),                         \* 12
       FloatConst(16256),                          \* 14
       StringConst(10),                            \* 15
       RefConst(9, 2, 18),                         \* 16
       RefConst(10, 2, 18),                        \* 17
       RefConst(12, 1, 5),                         \* 18
       RefConst(11, 6, 18),                        \* 19
       MethodHandleConst(1, 16),                   \* 20
       IndexConst(16, 5),                          \* 21
       RefConst(17, 0, 18),                        \* 22
       RefConst(18, 0, 18),                        \* 23
       IndexConst(19, 10),                         \* 24
       IndexConst(20, 10),                         \* 25
       Utf8Const(NameChars("Deprecated")),         \* 26
       Utf8Const(NameChars("Signature")),          \* 27
       Utf8Const(NameChars("StackMapTable")),      \* 28
       Utf8Const(NameChars("MethodParameters")),   \* 29
       Utf8Const(NameChars("Exceptions")),         \* 30
       Utf8Const(LowerCaseSourceFile) >>           \* 31

\* constant_pool_count followed by the entries.
PoolBytes(count, entries) == U16Bytes(count) \o Concat(entries)

\* An attribute: name index, attribute_length, then the bytes that follow.
AttributeBytes(name_index, length, payload) ==
    U16Bytes(name_index) \o U32Bytes(length) \o payload

\* A counted table: the u16 count, then the items.
Counted(items) == U16Bytes(Len(items)) \o Concat(items)

\* A field or a method.
MemberBytes(flags, name_index, descriptor_index, attrs) ==
    U16Bytes(flags) \o U16Bytes(name_index) \o U16Bytes(descriptor_index)
        \o Counted(attrs)

\* LineNumberTable with one entry.
LineNumberTableBytes == AttributeBytes(7, 6, U16Bytes(1) \o U16Bytes(0) \o U16Bytes(3))

\* Code with the single instruction `return`, no handler and a LineNumberTable
\* whose one entry is (0, 42).
CodeOfReturn ==
    AttributeBytes(1, 25, U16Bytes(0) \o U16Bytes(1) \o U32Bytes(1) \o <<177>>
                              \o U16Bytes(0)
                              \o Counted(<<AttributeBytes(7, 6, U16Bytes(1) \o U16Bytes(0)
                                                                  \o U16Bytes(42))>>))

\* Code with three bytes of code, two handlers, a LineNumberTable of two entries
\* and a Deprecated attribute.
CodeWithHandlers ==
    AttributeBytes(1, 53, U16Bytes(2) \o U16Bytes(1) \o U32Bytes(3) \o <<42, 191, 177>>
                              \o Counted(<<U16Bytes(0) \o U16Bytes(1) \o U16Bytes(2)
                                               \o U16Bytes(6),
                                           U16Bytes(1) \o U16Bytes(2) \o U16Bytes(2)
                                               \o U16Bytes(0)>>)
                              \o Counted(<<AttributeBytes(7, 10, U16Bytes(2)
                                                \o U16Bytes(0) \o U16Bytes(7)
                                                \o U16Bytes(2) \o U16Bytes(9)),
                                           AttributeBytes(26, 0, <<>>)>>))

\* Code with two bytes of code, no handler and one LineNumberTable.
CodeBytes ==
    AttributeBytes(1, 26, U16Bytes(1) \o U16Bytes(1) \o U32Bytes(2) \o <<42, 177>>
                              \o U16Bytes(0) \o Counted(<<LineNumberTableBytes>>))

\* The sections of a class file, in file order.
Sections ==
    <<"magic", "pool", "access_flags", "this_class", "super_class", "interfaces",
      "fields", "methods", "attributes">>

\* The variants of a section; variant 0 is the one of the well-formed file.
Variant(section, v) ==
    CASE section = "magic" ->
            (CASE v = 0 -> <<202, 254, 186, 190>>
              [] v = 1 -> <<202, 254, 186, 191>>
              [] v = 2 -> <<190, 186, 254, 202>>)
      [] section = "pool" ->
            (CASE v = 0 -> PoolBytes(32, BaselinePool)
              [] v = 1 -> PoolBytes(1, <<>>)
              [] v = 2 -> PoolBytes(0, <<>>)
              [] v = 3 -> PoolBytes(4, <<Utf8Const(NameChars("Code")), ClassConst(1), <<2, 0>>>>)
              [] v = 4 -> PoolBytes(4, <<Utf8Const(NameChars("Code")), ClassConst(1),
                                         MethodHandleConst(0, 1)>>)
              [] v = 5 -> PoolBytes(4, <<Utf8Const(NameChars("Code")), ClassConst(1),
                                         LongConst(1)>>)
              [] v = 6 -> PoolBytes(7, <<Utf8Const(<<226, 130>>), ClassConst(1),
                                         DoubleConst(1), Utf8Const(NameChars("SourceFile")),
                                         ClassConst(5)>>))
      [] section = "access_flags" ->
            (CASE v = 0 -> U16Bytes(33)
              [] v = 1 -> U16Bytes(0)
              [] v = 2 -> U16Bytes(17440)
              [] v = 3 -> U16Bytes(8))
      [] section = "this_class" ->
            (CASE v = 0 -> U16Bytes(2)
              [] v = 1 -> U16Bytes(1)
              [] v = 2 -> U16Bytes(4)
              [] v = 3 -> U16Bytes(40)
              [] v = 4 -> U16Bytes(0))
      [] section = "super_class" ->
            (CASE v = 0 -> U16Bytes(6)
              [] v = 1 -> U16Bytes(0)
              [] v = 2 -> U16Bytes(1)
              [] v = 3 -> U16Bytes(4)
              [] v = 4 -> U16Bytes(40)
              [] v = 5 -> U16Bytes(3))
      [] section = "interfaces" ->
            (CASE v = 0 -> Counted(<<>>)
              [] v = 1 -> Counted(<<U16Bytes(2)>>)
              [] v = 2 -> Counted(<<U16Bytes(6), U16Bytes(2)>>)
              [] v = 3 -> Counted(<<U16Bytes(2), U16Bytes(1)>>)
              [] v = 4 -> Counted(<<U16Bytes(4)>>))
      [] section = "fields" ->
            (CASE v = 0 -> Counted(<<>>)
              [] v = 1 -> Counted(<<MemberBytes(1, 1, 5, <<>>)>>)
              [] v = 2 -> Counted(<<MemberBytes(0, 1, 5, <<>>)>>)
              [] v = 3 -> Counted(<<MemberBytes(2, 2, 4, <<>>)>>)
              [] v = 4 -> Counted(<<MemberBytes(25, 1, 5,
                                        <<AttributeBytes(9, 2, U16Bytes(11))>>)>>)
              [] v = 5 -> Counted(<<MemberBytes(25, 1, 5,
                                        <<AttributeBytes(9, 3, U16Bytes(11) \o <<0>>)>>)>>)
              [] v = 6 -> Counted(<<MemberBytes(1, 1, 5, <<>>), MemberBytes(10, 0, 40, <<>>)>>)
              [] v = 7 -> Counted(<<MemberBytes(25, 1, 5,
                                        <<AttributeBytes(9, 2, U16Bytes(11)),
                                          AttributeBytes(26, 0, <<>>)>>)>>))
      [] section = "methods" ->
            (CASE v = 0 -> Counted(<<>>)
              [] v = 1 -> Counted(<<MemberBytes(1, 1, 5, <<CodeBytes>>)>>)
              [] v = 2 -> Counted(<<MemberBytes(5427, 1, 5, <<>>)>>)
              [] v = 3 -> Counted(<<MemberBytes(0, 1, 5, <<>>)>>)
              [] v = 4 -> Counted(<<MemberBytes(1025, 3, 6, <<>>), MemberBytes(8, 5, 1, <<>>)>>)
              [] v = 5 -> Counted(<<MemberBytes(1, 1, 5, <<CodeOfReturn>>)>>)
              [] v = 6 -> Counted(<<MemberBytes(9, 1, 5, <<CodeWithHandlers>>)>>))
      [] section = "attributes" ->
            (CASE v = 0 -> Counted(<<AttributeBytes(5, 2, U16Bytes(5))>>)
              [] v = 1 -> Counted(<<>>)
              [] v = 2 -> Counted(<<AttributeBytes(5, 0, U16Bytes(5))>>)
              [] v = 3 -> Counted(<<AttributeBytes(8, 0, <<>>)>>)
              [] v = 4 -> Counted(<<AttributeBytes(8, 8, U16Bytes(5) \o U32Bytes(2)
                                                        \o U16Bytes(5)),
                                    AttributeBytes(26, 0, <<>>)>>)
              [] v = 5 -> Counted(<<AttributeBytes(10, 0, <<>>)>>)
              [] v = 6 -> Counted(<<AttributeBytes(2, 0, <<>>)>>)
              [] v = 7 -> Counted(<<AttributeBytes(4, 0, <<>>)>>)
              [] v = 8 -> Counted(<<AttributeBytes(28, 2, U16Bytes(0))>>)
              [] v = 9 -> Counted(<<AttributeBytes(27, 4, U16Bytes(5)),
                                    AttributeBytes(5, 2, U16Bytes(5))>>)
              [] v = 10 -> Counted(<<AttributeBytes(31, 2, U16Bytes(5))>>)
              [] v = 11 -> Counted(<<AttributeBytes(29, 5, <<1>> \o U16Bytes(1)
                                                         \o U16Bytes(16))>>)
              [] v = 12 -> Counted(<<AttributeBytes(9, 2, U16Bytes(11))>>)
              [] v = 13 -> Counted(<<AttributeBytes(9, 3, U16Bytes(11) \o <<0>>)>>)
              [] v = 14 -> Counted(<<AttributeBytes(9, 0, <<>>)>>)
              [] v = 15 -> Counted(<<AttributeBytes(9, 2, <<0>>)>>))

\* The number of variants of a section that the choices are made of; the variants
\* after these are those of the files of the members.
Variants(section) ==
    CASE section = "magic" -> 2
      [] section = "pool" -> 6
      [] section = "access_flags" -> 3
      [] section = "this_class" -> 4
      [] section = "super_class" -> 5
      [] section = "interfaces" -> 4
      [] section = "fields" -> 7
      [] section = "methods" -> 4
      [] section = "attributes" -> 10

\* At most this many sections of an input differ from the well-formed file.
MaxDeviations == 2

\* A choice maps the sections that deviate to the variant taken.
Choices ==
    UNION { {c \in [S -> 1..10] : \A sec \in S : c[sec] <= Variants(sec)} :
            S \in {T \in SUBSET {Sections[i] : i \in 1..Len(Sections)} :
                       Cardinality(T) <= MaxDeviations} }

\* The bytes of the class file of a choice.
FileOf(c) ==
    Concat([i \in 1..Len(Sections) |->
               IF i = 2
               THEN U16Bytes(0) \o U16Bytes(52)
                        \o Variant(Sections[i], IF Sections[i] \in DOMAIN c
                                                THEN c[Sections[i]] ELSE 0)
               ELSE Variant(Sections[i], IF Sections[i] \in DOMAIN c
                                         THEN c[Sections[i]] ELSE 0)])

\* The well-formed file.
BaselineFile == FileOf(<<>>)

\* A file that ends after its access flags: version 61.3, constant_pool_count 1.
FileOfEmptyPool == <<202, 254, 186, 190, 0, 3, 0, 61, 0, 1, 0, 33>>

\* The inputs: the file of every choice, every proper prefix of the well-formed
\* file, the file of the empty pool.
Inputs ==
    {FileOf(c) : c \in Choices}
        \cup {SubSeq(BaselineFile, 1, n) : n \in 0..(Len(BaselineFile) - 1)}
        \cup {FileOfEmptyPool}

\* The locals of ClassFile::new before any statement has run.
Unread ==
    /\ magic = <<0, 0>>
    /\ minor_version = 0
    /\ major_version = 0
    /\ constant_pool_count = 0
    /\ index = 0
    /\ constant_pool = <<>>
    /\ access_flags = <<>>
    /\ this_class = None
    /\ super_class = None
    /\ interfaces = <<>>
    /\ fields = <<>>
    /\ methods = <<>>
    /\ attributes = <<>>
    /\ constant_pool_index = [read_this_class |-> <<>>, read_super_class |-> <<>>,
                              read_interfaces |-> <<>>]
    /\ remaining = 0

\* ByteReader::new(data) handed to ClassFile::new.
Init ==
    /\ \E bytes \in Inputs : data = Plain(bytes)
    /\ position = 0
    /\ pc = "read_magic_number"
    /\ panic = ""
    /\ ret = None
    /\ Unread

Next ==
    \/ ReadMagicNumber
    \/ ReadMinorVersion
    \/ ReadMajorVersion
    \/ ReadConstantPoolCount
    \/ ReadConstantPoolEntry
    \/ ReadAccessFlags
    \/ ReadThisClass
    \/ ReadSuperClass
    \/ ReadInterfacesCount
    \/ ReadInterface
    \/ ReadFieldsCount
    \/ ReadField
    \/ ReadMethodsCount
    \/ ReadMethod
    \/ ReadAttributesCount
    \/ ReadAttribute

Spec == Init /\ [][Next]_vars

\* ClassFile::new is one sequential call on one thread: while a statement is left
\* to run, the next one runs.  This is weak fairness of Next, with the condition
\* under which Next is enabled written out: a statement is left to run unless the
\* call has returned or panicked.
Fairness == []<>(pc \in {"done", "panicked"}) \/ []<><<Next>>_vars

SpecLive == Init /\ [][Next]_vars /\ Fairness

(***************************************************************************)
(* ClassFile::new on the files whose interfaces, fields, methods and class  *)
(* attributes are all given: the members carry Code and ConstantValue       *)
(* attributes, the class a ConstantValue or a MethodParameters attribute.   *)
(***************************************************************************)
MemberChoices ==
    [interfaces : 1..Variants("interfaces"),
     fields : {4, 5, 7},
     methods : {1, 5, 6},
     attributes : {4, 11, 12, 13, 14, 15}]

InputsOfMembers == {FileOf(c) : c \in MemberChoices}

InitMembers ==
    /\ \E bytes \in InputsOfMembers : data = Plain(bytes)
    /\ position = 0
    /\ pc = "read_magic_number"
    /\ panic = ""
    /\ ret = None
    /\ Unread

SpecMembers == InitMembers /\ [][Next]_vars

(***************************************************************************)
(* Long constant pools.  The loop of read_constant_pool over a file whose  *)
(* pool is a sequence of runs of equal entries has a closed form: the      *)
(* state after m iterations.  It is what lets a decode start just before   *)
(* the index reaches 2^16, which takes more than 2^15 iterations to reach. *)
(* The data is <<header, run of entries, .., run of entries, tail>>.       *)
(***************************************************************************)
Run(unit, reps) == [unit |-> unit, reps |-> reps]

\* magic, minor_version 0, major_version 52, constant_pool_count
HeaderRun(count) ==
    Run(<<202, 254, 186, 190>> \o U16Bytes(0) \o U16Bytes(52) \o U16Bytes(count), 1)

\* The loop run `reps` times over a run of equal entries, from the loop state st:
\* every entry is the one that ConstantPoolInfo::new reads from the unit, under its
\* own index; `index += offset` is taken modulo 2^16.
RunEffect(st, run, reps) ==
    LET first == ConstantPoolInfoNew(Plain(run.unit), 0, 0).val
        keys == {(st.index + t * EntryOffset(first)) % U16Modulus : t \in 0..(reps - 1)}
    IN [index |-> (st.index + reps * EntryOffset(first)) % U16Modulus,
        position |-> st.position + reps * Len(run.unit),
        constant_pool |->
            [k \in keys |-> [first EXCEPT !.data.constant_pool_index = k]]
                @@ st.constant_pool]

\* The loop state m iterations after st, the state at the start of run j of d.
RECURSIVE Iterated(_, _, _, _)
Iterated(d, st, j, m) ==
    IF m = 0 THEN st
    ELSE IF m <= d[j].reps THEN RunEffect(st, d[j], m)
    ELSE Iterated(d, RunEffect(st, d[j], d[j].reps), j + 1, m - d[j].reps)

\* The state of the loop of read_constant_pool after m iterations over d.
LoopState(d, m) ==
    Iterated(d, [index |-> 1, position |-> Len(d[1].unit), constant_pool |-> <<>>], 2, m)

\* The number of entries of d that end at or before position p, a position in
\* the runs of entries.
RECURSIVE EntriesBefore(_, _, _)
EntriesBefore(d, j, p) ==
    IF j = Len(d) \/ p < Len(d[j].unit) * d[j].reps THEN p \div Len(d[j].unit)
    ELSE d[j].reps + EntriesBefore(d, j + 1, p - Len(d[j].unit) * d[j].reps)

IterationsAt(d, p) == EntriesBefore(d, 2, p - Len(d[1].unit))

\* The loop is where the closed form says it is after as many iterations.
LoopMatchesClosedForm ==
    pc = "constant_pool_loop" =>
        [index |-> index, position |-> position, constant_pool |-> constant_pool]
            = LoopState(data, IterationsAt(data, position))

\* ClassFile::new in the loop of read_constant_pool, m iterations into the file d.
MidLoop(d, m) ==
    /\ data = d
    /\ pc = "constant_pool_loop"
    /\ panic = ""
    /\ ret = None
    /\ magic = read_magic_number(d, 0).val
    /\ minor_version = RdU16(d, 4).val
    /\ major_version = RdU16(d, 6).val
    /\ constant_pool_count = RdU16(d, 8).val
    /\ \E st \in {LoopState(d, m)} :
          /\ index = st.index
          /\ position = st.position
          /\ constant_pool = st.constant_pool
    /\ access_flags = <<>>
    /\ this_class = None
    /\ super_class = None
    /\ interfaces = <<>>
    /\ fields = <<>>
    /\ methods = <<>>
    /\ attributes = <<>>
    /\ constant_pool_index = [read_this_class |-> <<>>, read_super_class |-> <<>>,
                              read_interfaces |-> <<>>]
    /\ remaining = 0

\* The runs of a short pool have at most this many entries.
MaxReps == 3

\* The decodes of the long pools start this many iterations before the index
\* reaches 2^16 - 2, or before the loop ends.
WrapLead == 2

\* The largest constant_pool_count.
MaxCount == U16Modulus - 1

\* The rest of a class file after the pool: the class and its super class are the
\* entry `class`, one interface, one field, one method, one Synthetic attribute
\* (the Utf8 entry 1 is the name of all).
TailRun(class) ==
    Run(U16Bytes(33) \o U16Bytes(class) \o U16Bytes(class)
            \o Counted(<<U16Bytes(class)>>)
            \o Counted(<<MemberBytes(1, 1, 1, <<>>)>>)
            \o Counted(<<MemberBytes(1, 1, 1, <<>>)>>)
            \o Counted(<<AttributeBytes(1, 0, <<>>)>>), 1)

\* The rest of a class file whose this_class index is 0 and that has no super
\* class, interface, field, method or attribute.
TailOfNothing == Run(U16Bytes(33) \o U16Bytes(0) \o Concat([i \in 1..5 |-> U16Bytes(0)]), 1)

\* Short files: the name, then r Class entries and s Long entries, in either order.
ShortFiles ==
    UNION {{<<HeaderRun(2 + r + 2 * s), Run(Utf8Const(NameChars("Synthetic")), 1),
              Run(ClassConst(1), r), Run(LongConst(7), s), TailRun(2)>>,
            <<HeaderRun(2 + r + 2 * s), Run(Utf8Const(NameChars("Synthetic")), 1),
              Run(LongConst(7), s), Run(ClassConst(1), r), TailRun(2 + 2 * s)>>}
           : r \in 1..MaxReps, s \in 1..MaxReps}

\* A pool of MaxCount - 1 slots whose last slot, 2^16 - 2, holds a Long or a
\* Double: three more entries follow, then the file ends.
FileEndingAfterOverflow(wide) ==
    <<HeaderRun(MaxCount), Run(Utf8Const(NameChars("Synthetic")), 1),
      Run(ClassConst(1), MaxCount - 3), Run(wide, 1), Run(ClassConst(1), 3)>>

\* The same pool followed by MaxCount entries more, which take the loop from
\* index 0 to its end, and by the rest of a class file.
FileGoingRoundTwice ==
    <<HeaderRun(MaxCount), Run(Utf8Const(NameChars("Synthetic")), 1),
      Run(ClassConst(1), MaxCount - 3), Run(LongConst(7), 1),
      Run(ClassConst(1), MaxCount), TailOfNothing>>

\* A pool of MaxCount - 1 entries of one slot each.
FileOfNarrowEntries ==
    <<HeaderRun(MaxCount), Run(Utf8Const(NameChars("Synthetic")), 1),
      Run(ClassConst(1), MaxCount - 2), TailRun(2)>>

\* ClassFile::new on a short file, or in the loop of read_constant_pool of a long one.
InitWrap ==
    \/ /\ \E d \in ShortFiles : data = d
       /\ position = 0
       /\ pc = "read_magic_number"
       /\ panic = ""
       /\ ret = None
       /\ Unread
    \/ \E wide \in {LongConst(7), DoubleConst(7)} :
          MidLoop(FileEndingAfterOverflow(wide), MaxCount - 2 - WrapLead)
    \/ MidLoop(FileGoingRoundTwice, 2 * MaxCount - 1 - WrapLead)
    \/ MidLoop(FileOfNarrowEntries, MaxCount - 1 - WrapLead)

SpecWrap == InitWrap /\ [][Next]_vars

(***************************************************************************)
(* byte_reader.rs alone: a reader over a small buffer on which             *)
(* read_n_bytes is called with any n, again and again until a call panics. *)
(* ret is the last call: its n, the position it started from, its result.  *)
(***************************************************************************)
MaxLen == 3

MaxRead == 4

\* The buffers of at most MaxLen bytes over three byte values.
Buffers == UNION {[1..n -> {0, 1, 255}] : n \in 0..MaxLen}

\* ByteReader { data, position: 0 }
InitReader ==
    /\ \E bytes \in Buffers : data = Plain(bytes)
    /\ position = 0
    /\ pc = "read_n_bytes"
    /\ panic = ""
    /\ ret = None
    /\ Unread

\* What a call leaves behind: the position, and the panic if there is one.
Called(r, again) ==
    /\ position' = r.pos
    /\ pc' = IF r.ok THEN again ELSE "panicked"
    /\ panic' = r.err
    /\ UNCHANGED <<data, modelVars>>

\* reader.read_n_bytes(n)
ReadNBytesCall ==
    /\ pc = "read_n_bytes"
    /\ \E n \in 0..MaxRead :
          /\ Called(ReadNBytes(data, position, n), "read_n_bytes")
          /\ ret' = Some([n |-> n, from |-> position,
                          result |-> ReadNBytes(data, position, n)])

NextReader == ReadNBytesCall

SpecReader == InitReader /\ [][NextReader]_vars

(***************************************************************************)
(* access_flags.rs alone: one call of <Domain>::from_u16 on a bitmask.     *)
(* ret is the call: its domain, its bitmask, its result.                   *)
(***************************************************************************)
MaxBits == 3

\* The number of bits set in a 16-bit value.
BitCount(value) == Cardinality({i \in 0..15 : Bit(value, i) = 1})

\* The bitmasks tried: those of at most MaxBits bits, and the two of the unit tests
\* test_class_access_multiple_flags and test_method_access_multiple_flags.
Bitmasks == {m \in 0..(U16Modulus - 1) : BitCount(m) <= MaxBits} \cup {\h4420, \h1533}

InitFlags ==
    /\ data = <<>>
    /\ position = 0
    /\ pc = "from_u16"
    /\ panic = ""
    /\ ret = None
    /\ Unread

\* <Domain>::from_u16(bitmask)
FromU16Call ==
    /\ pc = "from_u16"
    /\ \E domain \in FlagDomains, bitmask \in Bitmasks :
          /\ pc' = IF from_u16(domain, bitmask).ok THEN "returned" ELSE "panicked"
          /\ panic' = from_u16(domain, bitmask).err
          /\ ret' = Some([domain |-> domain, bitmask |-> bitmask,
                          result |-> from_u16(domain, bitmask)])
          /\ UNCHANGED <<data, position, modelVars>>

NextFlags == FromU16Call

SpecFlags == InitFlags /\ [][NextFlags]_vars

(***************************************************************************)
(* ClassFile::new called twice on the same bytes, each time with a reader   *)
(* of its own.  ret is what the first call came to.                        *)
(***************************************************************************)
\* A reader that starts where the buffer ends.
ByteReaderAtEnd(bytes) == [data |-> bytes, position |-> DataLen(bytes)]

\* ByteReader::new: Self { data, position: 0 }
ByteReaderNew(bytes) == [data |-> bytes, position |-> 0]

\* What a call of ClassFile::new came to: the ClassFile it returned, or the
\* panic and the position of the reader when it was raised.
Outcome ==
    IF pc = "done"
    THEN [ok |-> TRUE,
          model |-> [magic |-> magic, minor_version |-> minor_version,
                     major_version |-> major_version,
                     constant_pool |-> constant_pool,
                     access_flags |-> access_flags, this_class |-> this_class,
                     super_class |-> super_class, interfaces |-> interfaces,
                     fields |-> fields, methods |-> methods,
                     attributes |-> attributes]]
    ELSE [ok |-> FALSE, panic |-> panic, position |-> position]

\* The files that deviate from the well-formed one in at most one section,
\* its proper prefixes, the file of the empty pool.
InputsTwice ==
    {FileOf(c) : c \in {ch \in Choices : Cardinality(DOMAIN ch) <= 1}}
        \cup {SubSeq(BaselineFile, 1, n) : n \in 0..(Len(BaselineFile) - 1)}
        \cup {FileOfEmptyPool}

InitTwice ==
    /\ \E bytes \in InputsTwice : data = Plain(bytes)
    /\ position = 0
    /\ pc = "read_magic_number"
    /\ panic = ""
    /\ ret = None
    /\ Unread

\* The first call is over: its outcome is kept, and ClassFile::new is called
\* on a new reader over the same bytes.
DecodeAgain ==
    /\ pc \in {"done", "panicked"}
    /\ ret = None
    /\ ret' = Some(Outcome)
    /\ \E reader \in {ByteReaderNew(data)} :
           /\ data' = reader.data
           /\ position' = reader.position
    /\ pc' = "read_magic_number"
    /\ panic' = ""
    /\ magic' = <<0, 0>>
    /\ minor_version' = 0
    /\ major_version' = 0
    /\ constant_pool_count' = 0
    /\ index' = 0
    /\ constant_pool' = <<>>
    /\ access_flags' = <<>>
    /\ this_class' = None
    /\ super_class' = None
    /\ interfaces' = <<>>
    /\ fields' = <<>>
    /\ methods' = <<>>
    /\ attributes' = <<>>
    /\ constant_pool_index' = [read_this_class |-> <<>>, read_super_class |-> <<>>,
                               read_interfaces |-> <<>>]
    /\ remaining' = 0

NextTwice == Next \/ DecodeAgain

SpecTwice == InitTwice /\ [][NextTwice]_vars

(***************************************************************************)
(* utils.rs alone, and the two typed reads of byte_reader.rs: one call of a *)
(* decoder on a slice, or of read_u16 / read_u32 on a new reader over it.   *)
(* ret is the call: the function, the slice, its result.                    *)
(***************************************************************************)
MaxSlice == 9

\* The bytes the slices are made of: a small one, the sign bit alone, all ones.
SliceBytes == {1, 128, 255}

Slices == UNION {[1..n -> SliceBytes] : n \in 0..MaxSlice}

Decoders == {"to_u16", "to_u32", "to_i32", "to_i64", "to_f32", "to_f64"}

Decode(decoder, bytes) ==
    CASE decoder = "to_u16" -> ToU16(bytes)
      [] decoder = "to_u32" -> ToU32(bytes)
      [] decoder = "to_i32" -> ToI32(bytes)
      [] decoder = "to_i64" -> ToI64(bytes)
      [] decoder = "to_f32" -> ToF32(bytes)
      [] decoder = "to_f64" -> ToF64(bytes)

InitDecode ==
    /\ \E bytes \in Slices : data = Plain(bytes)
    /\ position = 0
    /\ pc = "decode"
    /\ panic = ""
    /\ ret = None
    /\ Unread

\* to_u16(bytes), ..., to_f64(bytes)
DecoderCall ==
    /\ pc = "decode"
    /\ \E decoder \in Decoders :
           \E result \in {Decode(decoder, Slice(data, 0, DataLen(data)))} :
               /\ ret' = Some([decoder |-> decoder,
                               bytes |-> Slice(data, 0, DataLen(data)),
                               result |-> result])
               /\ pc' = IF result.ok THEN "returned" ELSE "panicked"
               /\ panic' = result.err
    /\ UNCHANGED <<data, position, modelVars>>

\* reader.read_u16(), reader.read_u32()
TypedReadCall ==
    /\ pc = "decode"
    /\ \E read \in {"read_u16", "read_u32"} :
           \E result \in {IF read = "read_u16" THEN read_u16(data, position)
                          ELSE read_u32(data, position)} :
               /\ ret' = Some([decoder |-> read,
                               bytes |-> Slice(data, 0, DataLen(data)),
                               result |-> result])
               /\ position' = result.pos
               /\ pc' = IF result.ok THEN "returned" ELSE "panicked"
               /\ panic' = result.err
    /\ UNCHANGED <<data, modelVars>>

NextDecode == DecoderCall \/ TypedReadCall

SpecDecode == InitDecode /\ [][NextDecode]_vars

(***************************************************************************)
(* The claims.                                                             *)
(***************************************************************************)
\* The last element of a non-empty sequence.
Last(seq) == seq[Len(seq)]

\* C4: for a reader at position p over a buffer of length L, read_n_bytes(n)
\* succeeds iff p + n <= L; on success it returns exactly the bytes at offsets
\* [p, p + n) and the new position is p + n; when p + n > L it fails (it panics:
\* the end of the input) and returns no bytes.
C4_ReadNBytesWindow ==
    ~ret.none =>
        LET call == ret.some
        IN /\ call.result.ok <=> call.from + call.n <= DataLen(data)
           /\ call.result.ok =>
                 /\ Len(call.result.val) = call.n
                 /\ \A i \in 1..call.n :
                       call.result.val[i] = ByteAt(data, call.from + i - 1)
                 /\ position = call.from + call.n
                 /\ pc = "read_n_bytes"
           /\ ~call.result.ok =>
                 /\ call.result.val = <<>>
                 /\ pc = "panicked"
                 /\ panic = "eof"

\* C4 happens: a read of two bytes from the middle of a buffer succeeded and left
\* the reader at the end of the buffer.
C4_Witness ==
    /\ ~ret.none
    /\ ret.some.result.ok
    /\ ret.some.from = 1
    /\ ret.some.n = 2
    /\ DataLen(data) = 3

\* The variants of a domain whose bit is set in the bitmask, as places of its table.
VariantsSet(domain, bitmask) ==
    {i \in DOMAIN FlagTable(domain) : (bitmask \div FlagTable(domain)[i].mask) % 2 = 1}

\* The variants of a domain whose bit is set in the bitmask, each once, in
\* ascending order of their bit value.
VariantsAscending(domain, bitmask) ==
    LET table == FlagTable(domain)
        set == VariantsSet(domain, bitmask)
    IN [j \in 1..Cardinality(set) |->
           table[CHOOSE i \in set :
                    Cardinality({k \in set : table[k].mask < table[i].mask}) = j - 1].flag]

\* C9: for each of the nine flag domains and every 16-bit mask that has at least
\* one bit of the domain's table set, from_u16(mask) returns exactly the variants
\* whose table bit is set in the mask, each once, in ascending bit-value order;
\* class mask 0x4420 yields [AccSuper, AccAbstract, AccEnum] and method mask 0x1533
\* yields [AccPublic, AccPrivate, AccFinal, AccSynchronized, AccNative, AccAbstract,
\* AccSynthetic].
C9_FlagsInTableOrder ==
    ~ret.none =>
        LET call == ret.some
        IN /\ VariantsSet(call.domain, call.bitmask) # {} =>
                 /\ call.result.ok
                 /\ pc = "returned"
                 /\ call.result.val = VariantsAscending(call.domain, call.bitmask)
           /\ BitCount(call.bitmask) = 1 /\ VariantsSet(call.domain, call.bitmask) # {} =>
                 Len(call.result.val) = 1
           /\ call.domain = "ClassAccessFlags" /\ call.bitmask = \h4420 =>
                 call.result.val = <<"AccSuper", "AccAbstract", "AccEnum">>
           /\ call.domain = "MethodAccessFlags" /\ call.bitmask = \h1533 =>
                 call.result.val = <<"AccPublic", "AccPrivate", "AccFinal",
                                     "AccSynchronized", "AccNative", "AccAbstract",
                                     "AccSynthetic">>

\* C9 happens: MethodAccessFlags::from_u16(0x1533) has returned its seven flags.
C9_Witness ==
    /\ ~ret.none
    /\ pc = "returned"
    /\ ret.some.domain = "MethodAccessFlags"
    /\ ret.some.bitmask = \h1533
    /\ Len(ret.some.result.val) = 7

\* C10, as the specification states it: from_u16 of a mask with no bit of the
\* domain's table set (the all-zero mask among them) returns an empty flag set
\* rather than failing.
C10_EmptyFlagSetReturned ==
    ~ret.none /\ VariantsSet(ret.some.domain, ret.some.bitmask) = {} =>
        /\ pc = "returned"
        /\ ret.some.result.ok
        /\ ret.some.result.val = <<>>

\* C1, as the specification states it: for every attribute that AttributeInfo::new
\* decodes successfully, the cursor advances after the 6-byte header by exactly the
\* attribute_length read from the file; a payload of another size makes the decode
\* fail instead of returning an attribute.  Stated of the attributes of the class.
C1_ConsumedEqualsAttributeLength ==
    [][pc = "attributes_loop" /\ pc' # "panicked" =>
          position' = position + 6 + AsUsize(Last(attributes').data.attribute_length)]_vars

\* The first four bytes of the input, read big-endian.
FirstFourBytes ==
    <<256 * ByteAt(data, 0) + ByteAt(data, 1), 256 * ByteAt(data, 2) + ByteAt(data, 3)>>

\* C5: ClassFile::new fails with the bad-magic panic iff the first four bytes of the
\* input, read big-endian, differ from 0xCAFEBABE; the check happens after exactly
\* four bytes have been consumed and before anything else is read, and every
\* decoded model has magic = 0xCAFEBABE.
C5_BadMagicIffFirstFourDiffer ==
    /\ (pc = "panicked" /\ panic = "bad_magic")
          <=> /\ pc # "read_magic_number"
              /\ DataLen(data) >= 4
              /\ FirstFourBytes # <<\hCAFE, \hBABE>>
    /\ panic = "bad_magic" => position = 4 /\ Unread
    /\ pc = "done" => magic = <<\hCAFE, \hBABE>>

\* C5 happens: an input of more than four bytes with another magic number has been
\* refused.
C5_Witness ==
    /\ pc = "panicked"
    /\ panic = "bad_magic"
    /\ DataLen(data) > 4

\* C6, as the specification states it: in every decoded class model, super_class
\* is absent iff the super_class index read from the file is 0.
C6_SuperClassAbsentIffZero ==
    pc = "done" => (super_class.none <=> Last(constant_pool_index.read_super_class) = 0)

\* The index resolves to a Utf8 constant of the decoded pool.
ResolvesToUtf8(i) == i \in DOMAIN constant_pool /\ constant_pool[i].tag = "ConstantUtf8"

\* C8, as the specification states it: whenever ClassFile::new returns a model, the
\* name_index and the descriptor_index of every field and of every method resolve
\* to a Utf8 constant of the decoded pool.
C8_MemberNamesResolve ==
    pc = "done" =>
        /\ \A i \in DOMAIN fields :
              ResolvesToUtf8(fields[i].name_index)
              /\ ResolvesToUtf8(fields[i].descriptor_index)
        /\ \A i \in DOMAIN methods :
              ResolvesToUtf8(methods[i].name_index)
              /\ ResolvesToUtf8(methods[i].descriptor_index)

\* The tags of the entries that take two slots of the pool.
WideTags == {"ConstantLong", "ConstantDouble"}

\* C2, as the specification states it: the entry read after an entry of tag Long
\* or Double stored under key k is stored under key k + 2, the entry read after
\* an entry of any other tag under k + 1; and after read_constant_pool, for every
\* key k whose entry has tag Long or Double, the pool has no entry under key k + 1.
C2_NextKeyAfterEntry ==
    [][/\ pc = "constant_pool_loop" /\ pc' # "panicked" =>
             index' = index + (IF constant_pool'[index].tag \in WideTags THEN 2 ELSE 1)
       /\ pc = "constant_pool_loop" /\ pc' = "read_access_flags" =>
             \A k \in DOMAIN constant_pool' :
                constant_pool'[k].tag \in WideTags => k + 1 \notin DOMAIN constant_pool']_vars

\* C3, as the specification states it: the pool built by read_constant_pool never
\* contains key 0 and every key k satisfies 1 <= k < constant_pool_count; the
\* 16-bit index arithmetic never wraps around to store an entry at a lower key.
C3_KeysWithinCount ==
    \A k \in DOMAIN constant_pool : 1 <= k /\ k < constant_pool_count

\* The index is one that the specification lets resolve: not 0, not the slot
\* after a Long or a Double, and less than constant_pool_count.
ValidIndex(i) ==
    /\ 1 <= i
    /\ i < constant_pool_count
    /\ ~(i - 1 \in DOMAIN constant_pool /\ constant_pool[i - 1].tag \in WideTags)

\* class is a copy of the Class constant stored in the pool under the index i.
CopyOfClassAt(class, i) ==
    /\ i \in DOMAIN constant_pool
    /\ constant_pool[i].tag = "ConstantClass"
    /\ class = constant_pool[i].data
    /\ class.constant_pool_index = i

\* C7, as the specification states it: in every decoded class model, this_class,
\* super_class when present, and every element of interfaces is a copy of the Class
\* constant stored in the pool under the index read from the file; an index that
\* is 0 (a super_class index of 0 excepted), a Long/Double hole or >=
\* constant_pool_count makes the decode fail.
C7_ClassReferencesResolve ==
    pc = "done" =>
        /\ ValidIndex(constant_pool_index.read_this_class[1])
        /\ CopyOfClassAt(this_class, constant_pool_index.read_this_class[1])
        /\ constant_pool_index.read_super_class[1] # 0 =>
              ValidIndex(constant_pool_index.read_super_class[1])
        /\ ~super_class.none =>
              CopyOfClassAt(super_class.some, constant_pool_index.read_super_class[1])
        /\ Len(interfaces) = Len(constant_pool_index.read_interfaces)
        /\ \A i \in DOMAIN interfaces :
              /\ ValidIndex(constant_pool_index.read_interfaces[i])
              /\ CopyOfClassAt(interfaces[i], constant_pool_index.read_interfaces[i])

\* The 16-bit value whose set bits are the given ones.
RECURSIVE BitsValue(_, _)
BitsValue(bits, i) ==
    IF i > 15 THEN 0 ELSE (IF i \in bits THEN 2 ^ i ELSE 0) + BitsValue(bits, i + 1)

\* a AND b on 16-bit values.
BitAnd(a, b) == BitsValue({i \in 0..15 : Bit(a, i) = 1 /\ Bit(b, i) = 1}, 0)

\* The OR of the masks of the tests of a domain that push one of the given flags.
MaskOf(domain, flags) ==
    LET table == FlagTable(domain)
    IN BitsValue({i \in 0..15 : \E t \in DOMAIN table :
                     /\ \E j \in DOMAIN flags : flags[j] = table[t].flag
                     /\ Bit(table[t].mask, i) = 1}, 0)

\* T: the OR of all bits in the table of a domain.
TableBits(domain) ==
    MaskOf(domain, [t \in DOMAIN FlagTable(domain) |-> FlagTable(domain)[t].flag])

\* C11: for each flag domain and every 16-bit mask m, the bits that are not in
\* the domain's table do not influence the result: from_u16(m) has the same
\* outcome (the same flags, or the same panic) as from_u16(m AND T), where T is
\* the OR of all bits in the domain's table.
C11_UnknownBitsIgnored ==
    ~ret.none =>
        ret.some.result
            = from_u16(ret.some.domain, BitAnd(ret.some.bitmask, TableBits(ret.some.domain)))

\* C11 happens: ClassAccessFlags::from_u16(0x0003) has returned [AccPublic]; bit
\* 0x0002 is not in the table of the class flags.
C11_Witness ==
    /\ ~ret.none
    /\ pc = "returned"
    /\ ret.some.domain = "ClassAccessFlags"
    /\ ret.some.bitmask = 3
    /\ BitAnd(3, TableBits("ClassAccessFlags")) = 1
    /\ ret.some.result.val = <<"AccPublic">>

\* C12: for each flag domain and every mask m on which from_u16 succeeds, let m'
\* be the bitwise OR of the table bits of the variants in from_u16(m); then
\* from_u16(m') returns the same list (same variants, same order) as from_u16(m).
C12_DecodedMaskDecodesAlike ==
    ~ret.none /\ ret.some.result.ok =>
        from_u16(ret.some.domain, MaskOf(ret.some.domain, ret.some.result.val))
            = ret.some.result

\* C12 happens: NestedClassAccessFlags::from_u16(0x0029) has returned
\* [AccPublic, AccStatic], whose table bits are 0x0009.
C12_Witness ==
    /\ ~ret.none
    /\ pc = "returned"
    /\ ret.some.domain = "NestedClassAccessFlags"
    /\ ret.some.bitmask = 41
    /\ ret.some.result.val = <<"AccPublic", "AccStatic">>
    /\ MaskOf("NestedClassAccessFlags", ret.some.result.val) = 9

\* The tag bytes of Tag::from_tag.
TagBytes == {1, 3, 4, 5, 6, 7, 8, 9, 10, 11, 12, 15, 16, 17, 18, 19, 20}

\* The entry at the reader's position has a tag byte that is no tag, or it is a
\* MethodHandle (tag 15) whose reference_kind byte is not in 1..9.
MalformedTagAt(d, p) ==
    \/ p < DataLen(d) /\ ByteAt(d, p) \notin TagBytes
    \/ /\ p + 1 < DataLen(d)
       /\ ByteAt(d, p) = 15
       /\ ByteAt(d, p + 1) \notin 1..9

\* C13: decoding a constant-pool entry fails with a malformed tag iff its tag byte
\* is not one of 1,3,4,5,6,7,8,9,10,11,12,15,16,17,18,19,20, or the entry is a
\* MethodHandle whose reference_kind byte is not in 1..9; on such a failure no
\* entry is stored under the current index and no pool is returned.
C13_MalformedTagIffUnknown ==
    [][pc = "constant_pool_loop" =>
          /\ (pc' = "panicked" /\ panic' \in {"unknown_tag", "unknown_kind"})
                <=> MalformedTagAt(data, position)
          /\ MalformedTagAt(data, position) =>
                /\ constant_pool' = constant_pool
                /\ index \notin DOMAIN constant_pool'
                /\ pc' = "panicked"]_vars

\* C13 happens: a MethodHandle with reference_kind 0 has ended the decode at index
\* 3, after two entries were stored.
C13_Witness ==
    /\ pc = "panicked"
    /\ panic = "unknown_kind"
    /\ index = 3
    /\ DOMAIN constant_pool = {1, 2}

\* The attributes of a list and those nested in them: the attributes of a Code
\* attribute and of the components of a Record attribute.
RECURSIVE NestedAttributes(_)
NestedAttributes(list) ==
    UNION {{list[i]}
              \cup (IF list[i].attribute_type = "Code"
                    THEN NestedAttributes(list[i].data.attributes)
                    ELSE IF list[i].attribute_type = "Record"
                    THEN UNION {NestedAttributes(list[i].data.components[c].attributes)
                                   : c \in DOMAIN list[i].data.components}
                    ELSE {})
           : i \in DOMAIN list}

\* Every attribute of the class model: of the class, of its fields, of its methods.
ModelAttributes ==
    NestedAttributes(attributes)
        \cup UNION {NestedAttributes(fields[i].attributes) : i \in DOMAIN fields}
        \cup UNION {NestedAttributes(methods[i].attributes) : i \in DOMAIN methods}

\* The two panics of the name lookup of AttributeInfo::new.
BadAttributeName == {"attribute_name_missing", "attribute_name_not_utf8"}

\* C14: AttributeInfo::new fails with a bad-attribute-name error, after consuming
\* exactly the 6 header bytes and before reading any payload byte, whenever
\* attribute_name_index is absent from the pool (0, a Long/Double hole, or >=
\* count) or refers to an entry that is not a Utf8 constant; every attribute in a
\* successfully decoded model has an attribute_name_index that resolves to a Utf8
\* constant.
C14_BadAttributeNameAfterHeader ==
    [][/\ /\ pc = "attributes_loop"
          /\ position + 6 <= DataLen(data)
          /\ ~ResolvesToUtf8(IndexReadAt(data, position))
          => /\ pc' = "panicked"
             /\ panic' \in BadAttributeName
             /\ position' = position + 6
             /\ attributes' = attributes
       /\ pc' = "panicked" /\ panic' \in BadAttributeName
          => /\ position' >= position + 6
             /\ ~ResolvesToUtf8(IndexReadAt(data, position' - 6))
       /\ pc' = "done"
          => \A a \in ModelAttributes' : ResolvesToUtf8(a.data.attribute_name_index)]_vars

\* C14 happens: a class attribute whose name index is the hole after the Long
\* entry 3 has ended the decode six bytes after the attribute began.
C14_Witness ==
    /\ pc = "panicked"
    /\ panic = "attribute_name_missing"
    /\ remaining = 1
    /\ IndexReadAt(data, position - 6) = 4
    /\ 3 \in DOMAIN constant_pool
    /\ constant_pool[3].tag = "ConstantLong"

\* The 30 names of the attribute-name table, as strings of code points.
TableNames == {NameChars(AttributeTypes[k]) : k \in 1..Len(AttributeTypes)}

\* The string of the Utf8 entry i of the pool.
Utf8At(i) == constant_pool[i].data.string

\* C15: an attribute whose resolved name is not exactly (case-sensitively) one of
\* the 30 names of the attribute-name table makes the decode fail with an
\* unknown-attribute error; its attribute_length bytes are never skipped to
\* continue with the next attribute; and every name in the table is dispatched to
\* the variant of the same name.
C15_UnknownAttributeIsFatal ==
    [][/\ Len(AttributeTypes) = 30 /\ Cardinality(TableNames) = 30
       /\ /\ pc = "attributes_loop"
          /\ position + 6 <= DataLen(data)
          /\ ResolvesToUtf8(IndexReadAt(data, position))
          => IF Utf8At(IndexReadAt(data, position)) \notin TableNames
             THEN /\ pc' = "panicked"
                  /\ panic' = "unknown_attribute"
                  /\ position' = position + 6
                  /\ attributes' = attributes
             ELSE /\ panic' \notin {"unknown_attribute"} \cup BadAttributeName
                  /\ pc' # "panicked" =>
                        /\ Len(attributes') = Len(attributes) + 1
                        /\ NameChars(Last(attributes').attribute_type)
                              = Utf8At(IndexReadAt(data, position))
       /\ pc' = "panicked" /\ panic' = "unknown_attribute"
          => /\ position' >= position + 6
             /\ ResolvesToUtf8(IndexReadAt(data, position' - 6))
             /\ Utf8At(IndexReadAt(data, position' - 6)) \notin TableNames
       /\ pc' = "done"
          => \A a \in ModelAttributes' :
                NameChars(a.attribute_type) = Utf8At(a.data.attribute_name_index)]_vars

\* C15 happens: the class attribute named "sourcefile" has ended the decode six
\* bytes after the attribute began, with its two payload bytes unread.
C15_Witness ==
    /\ pc = "panicked"
    /\ panic = "unknown_attribute"
    /\ remaining = 1
    /\ ResolvesToUtf8(IndexReadAt(data, position - 6))
    /\ Utf8At(IndexReadAt(data, position - 6)) = LowerCaseSourceFile
    /\ position + 2 = DataLen(data)

\* The statements of ClassFile::new in the order of the sections, and those that
\* are loops (a loop of no iteration is passed over).
Statements ==
    <<"read_magic_number", "read_minor_version", "read_major_version",
      "read_constant_pool", "constant_pool_loop", "read_access_flags",
      "read_this_class", "read_super_class", "read_interfaces", "interfaces_loop",
      "read_fields", "fields_loop", "read_methods", "methods_loop",
      "read_attributes", "attributes_loop", "done">>

Loops == {"constant_pool_loop", "interfaces_loop", "fields_loop", "methods_loop",
          "attributes_loop"}

\* The place of a statement in the order.
Place(statement) == CHOOSE k \in DOMAIN Statements : Statements[k] = statement

\* The statements that a statement can be followed by.
Following(statement) ==
    LET k == Place(statement)
    IN (IF statement \in Loops THEN {statement} ELSE {})
           \cup {Statements[k + 1]}
           \cup (IF Statements[k + 1] \in Loops THEN {Statements[k + 2]} ELSE {})

\* The statements that read one u16 into a variable of the model.
ReadsU16 ==
    {"read_minor_version", "read_major_version", "read_constant_pool",
     "read_access_flags", "read_this_class", "read_super_class", "read_interfaces",
     "read_fields", "read_methods", "read_attributes"}

\* C16: ClassFile::new reads the sections in the fixed order magic, minor_version,
\* major_version, constant pool, access flags, this_class, super_class,
\* interfaces, fields, methods, class attributes: each section starts at the byte
\* offset where the previous one ended, and the constant pool is completely built
\* before any this_class/super_class/interface lookup or attribute-name lookup
\* consults it.
C16_SectionsInFixedOrder ==
    [][pc \notin {"done", "panicked"} =>
          /\ pc' \in Following(pc) \cup {"panicked"}
          /\ position' >= position
          /\ pc = "read_magic_number" => position = 0
          /\ pc' # "panicked" =>
                /\ pc = "read_magic_number" =>
                      position' = 4 /\ magic' = FirstFourBytes
                /\ pc \in ReadsU16 => position' = position + 2
                /\ pc \in Loops => position' > position
                /\ pc = "read_minor_version" =>
                      minor_version' = IndexReadAt(data, position)
                /\ pc = "read_major_version" =>
                      major_version' = IndexReadAt(data, position)
                /\ pc = "read_constant_pool" =>
                      constant_pool_count' = IndexReadAt(data, position)
                /\ pc = "read_this_class" =>
                      this_class'.constant_pool_index = IndexReadAt(data, position)
                /\ pc \in {"read_interfaces", "read_fields", "read_methods",
                           "read_attributes"} =>
                      remaining' = IndexReadAt(data, position)
                /\ pc = "interfaces_loop" =>
                      Last(interfaces').constant_pool_index = IndexReadAt(data, position)
                /\ pc \in {"fields_loop", "methods_loop"} =>
                      Last(IF pc = "fields_loop" THEN fields' ELSE methods').name_index
                          = IndexReadAt(data, position + 2)
                /\ pc = "attributes_loop" =>
                      Last(attributes').data.attribute_name_index
                          = IndexReadAt(data, position)
          /\ Place(pc) > Place("constant_pool_loop") =>
                /\ ~(index < constant_pool_count)
                /\ constant_pool' = constant_pool
          /\ Place(pc) < Place("read_this_class") =>
                constant_pool_index' = constant_pool_index]_vars

\* C16 happens: a file with a pool, a field, a method and a class attribute has
\* been decoded to its last byte.
C16_Witness ==
    /\ pc = "done"
    /\ constant_pool # <<>>
    /\ Len(fields) > 0
    /\ Len(methods) > 0
    /\ Len(attributes) > 0
    /\ position = DataLen(data)

\* The number of bytes of an attribute whose type has a payload of fixed size
\* (0 for the other types).
FixedSize(a) ==
    CASE a.attribute_type \in {"Synthetic", "Deprecated"} -> 6
      [] a.attribute_type \in {"ConstantValue", "Signature", "SourceFile"} -> 8
      [] OTHER -> 0

\* The offset of attributes_count in a Code attribute that begins at offset q.
CodeAttributesAt(a, q) ==
    q + 6 + 2 + 2 + 4 + Len(a.data.code) + 2 + 8 * Len(a.data.exception_table)

RECURSIVE ItemsInFileOrder(_, _, _)
RECURSIVE ListInFileOrder(_, _)

\* The attributes k, k + 1, .. of the list are those of the file from offset q on:
\* each has the name index found where the one before it ended.
ItemsInFileOrder(list, k, q) ==
    k > Len(list)
    \/ /\ list[k].data.attribute_name_index = IndexReadAt(data, q)
       /\ list[k].attribute_type = "Code" =>
             ListInFileOrder(list[k].data.attributes, CodeAttributesAt(list[k], q))
       /\ FixedSize(list[k]) > 0 => ItemsInFileOrder(list, k + 1, q + FixedSize(list[k]))

\* The list of attributes is the one whose u16 count is at offset p of the file.
ListInFileOrder(list, p) ==
    /\ Len(list) = IndexReadAt(data, p)
    /\ ItemsInFileOrder(list, 1, p + 2)

\* The list that a loop of ClassFile::new fills.
ListOf(loop) ==
    CASE loop = "interfaces_loop" -> interfaces
      [] loop = "fields_loop" -> fields
      [] loop = "methods_loop" -> methods
      [] loop = "attributes_loop" -> attributes

\* The loops of the four lists and the statements that read their counts.
ListLoops == {"interfaces_loop", "fields_loop", "methods_loop", "attributes_loop"}

CountOf(loop) == Statements[Place(loop) - 1]

\* C17: in every successfully decoded model, the lengths of interfaces, fields,
\* methods and class attributes (and of each field's/method's/Code's attribute
\* list) equal the corresponding 16-bit counts read from the file, and the k-th
\* element of each list is the k-th item decoded from the byte stream.  Step by
\* step: the statement that reads a count leaves an empty list and that many
\* iterations to go; an iteration appends the item decoded at the reader's
\* position, leaves the elements before it alone and one iteration fewer to go;
\* the loop is left when none is to go; no other statement touches the list.
C17_ListsInFileOrder ==
    [][pc' # "panicked" =>
          \A loop \in ListLoops :
             /\ pc = CountOf(loop) =>
                   /\ ListOf(loop)' = <<>>
                   /\ remaining' = IndexReadAt(data, position)
                   /\ pc' = loop <=> remaining' > 0
             /\ pc = loop =>
                   /\ Len(ListOf(loop)') = Len(ListOf(loop)) + 1
                   /\ SubSeq(ListOf(loop)', 1, Len(ListOf(loop))) = ListOf(loop)
                   /\ remaining' = remaining - 1
                   /\ pc' = loop <=> remaining' > 0
                   /\ loop = "interfaces_loop" =>
                         Last(interfaces').constant_pool_index = IndexReadAt(data, position)
                   /\ loop \in {"fields_loop", "methods_loop"} =>
                         /\ Last(ListOf(loop)').name_index = IndexReadAt(data, position + 2)
                         /\ Last(ListOf(loop)').descriptor_index
                               = IndexReadAt(data, position + 4)
                         /\ ListInFileOrder(Last(ListOf(loop)').attributes, position + 6)
                   /\ loop = "attributes_loop" =>
                         ItemsInFileOrder(<<Last(attributes')>>, 1, position)
             /\ pc \notin {CountOf(loop), loop} => ListOf(loop)' = ListOf(loop)]_vars

\* C17 happens: a field with the two attributes ConstantValue and Deprecated, in
\* this order, and a method whose Code attribute has a LineNumberTable have been
\* decoded.
C17_Witness ==
    /\ pc = "done"
    /\ Len(fields) = 1
    /\ Len(fields[1].attributes) = 2
    /\ fields[1].attributes[1].attribute_type = "ConstantValue"
    /\ fields[1].attributes[2].attribute_type = "Deprecated"
    /\ Len(methods) = 1
    /\ Len(methods[1].attributes) = 1
    /\ methods[1].attributes[1].attribute_type = "Code"
    /\ Len(methods[1].attributes[1].data.attributes) = 1

\* The failures of a decode: the end of the input, a bad magic number, a malformed
\* tag, a bad pool reference, a bad or unknown attribute name, a failed assertion,
\* a reader that is todo!(), an overflow of the pool index.
Failures ==
    {"eof", "bad_magic", "unknown_tag", "unknown_kind", "pool_entry_missing",
     "not_a_class", "attribute_name_missing", "attribute_name_not_utf8",
     "unknown_attribute", "assert_flags", "assert_length", "assert_width", "todo",
     "add_overflow"}

\* C18: every failure during a decode (end of input, bad magic, malformed tag, bad
\* pool reference, bad or unknown attribute name, failed assertion) is fatal and
\* absorbing: after the first failure no further byte is consumed from the
\* cursor, no later section is decoded, and no class model (not even a partial
\* one) is returned.
C18_FailureIsAbsorbing ==
    /\ [](pc = "panicked" => ~ENABLED Next)
    /\ [](panic = "" <=> pc # "panicked")
    /\ [][/\ panic' # "" =>
                /\ pc' = "panicked"
                /\ panic' \in Failures
          /\ pc' = "panicked" =>
                /\ pc # "done"
                /\ modelVars' = modelVars
                /\ ret' = ret
          /\ pc = "panicked" =>
                /\ pc' = "panicked"
                /\ panic' = panic
                /\ position' = position
          /\ pc' = "done" => panic = "" /\ panic' = ""]_vars

\* C18 happens: the input ended after the pool and this_class had been read and
\* before any field, method or attribute was.
C18_Witness ==
    /\ pc = "panicked"
    /\ panic = "eof"
    /\ position > DataLen(data)
    /\ constant_pool # <<>>
    /\ this_class # None
    /\ fields = <<>>
    /\ methods = <<>>
    /\ attributes = <<>>

\* C19: when constant_pool_count is 1, read_constant_pool consumes exactly the two
\* count bytes (no tag byte), returns an empty pool map, and the next two bytes of
\* the input are read as the class access_flags mask (bytes CA FE BA BE 00 03 00 3D
\* 00 01 00 21 give minor = 3, major = 61, an empty pool, flags [AccPublic,
\* AccSuper]).
C19_EmptyPoolAccepted ==
    [][/\ /\ pc = "read_constant_pool"
          /\ position + 2 <= DataLen(data)
          /\ IndexReadAt(data, position) = 1
          => /\ pc' = "read_access_flags"
             /\ position' = position + 2
             /\ constant_pool' = <<>>
             /\ constant_pool_count' = 1
       /\ /\ pc = "read_access_flags"
          /\ constant_pool_count = 1
          /\ pc' # "panicked"
          => /\ position' = position + 2
             /\ constant_pool' = <<>>
             /\ access_flags' = VariantsAscending("ClassAccessFlags",
                                                  IndexReadAt(data, position))
       /\ data' = Plain(FileOfEmptyPool) /\ pc' = "read_this_class"
          => /\ minor_version' = 3
             /\ major_version' = 61
             /\ constant_pool' = <<>>
             /\ access_flags' = <<"AccPublic", "AccSuper">>
             /\ position' = 12]_vars

\* C19 happens: the twelve bytes of the example have been read up to this_class.
C19_Witness ==
    /\ data = Plain(FileOfEmptyPool)
    /\ pc = "read_this_class"
    /\ constant_pool_count = 1
    /\ DOMAIN constant_pool = {}
    /\ access_flags = <<"AccPublic", "AccSuper">>

\* The 17 typed accessors of ConstantPoolInfo.
Accessors ==
    {"try_cast_into_utf8",
     "try_cast_into_integer",
     "try_cast_into_float",
     "try_cast_into_long",
     "try_cast_into_double",
     "try_cast_into_class",
     "try_cast_into_string",
     "try_cast_into_field_ref",
     "try_cast_into_method_ref",
     "try_cast_into_interface_method_ref",
     "try_cast_into_name_and_type",
     "try_cast_into_method_handle",
     "try_cast_into_method_type",
     "try_cast_into_dynamic",
     "try_cast_into_invoke_dynamic",
     "try_cast_into_module",
     "try_cast_into_package"}

\* The tag of the variant X of the accessor try_cast_into_X.
VariantOf(accessor) ==
    CASE accessor = "try_cast_into_utf8" -> "ConstantUtf8"
      [] accessor = "try_cast_into_integer" -> "ConstantInteger"
      [] accessor = "try_cast_into_float" -> "ConstantFloat"
      [] accessor = "try_cast_into_long" -> "ConstantLong"
      [] accessor = "try_cast_into_double" -> "ConstantDouble"
      [] accessor = "try_cast_into_class" -> "ConstantClass"
      [] accessor = "try_cast_into_string" -> "ConstantString"
      [] accessor = "try_cast_into_field_ref" -> "ConstantFieldRef"
      [] accessor = "try_cast_into_method_ref" -> "ConstantMethodRef"
      [] accessor = "try_cast_into_interface_method_ref" -> "ConstantInterfaceMethodRef"
      [] accessor = "try_cast_into_name_and_type" -> "ConstantNameAndType"
      [] accessor = "try_cast_into_method_handle" -> "ConstantMethodHandle"
      [] accessor = "try_cast_into_method_type" -> "ConstantMethodType"
      [] accessor = "try_cast_into_dynamic" -> "ConstantDynamic"
      [] accessor = "try_cast_into_invoke_dynamic" -> "ConstantInvokeDynamic"
      [] accessor = "try_cast_into_module" -> "ConstantModule"
      [] accessor = "try_cast_into_package" -> "ConstantPackage"

\* C20: for every entry e produced by ConstantPoolInfo::new and each of the 17
\* typed accessors try_cast_into_X, the accessor returns a value iff e.tag is the
\* variant X (so exactly one accessor returns a value for each entry) and returns
\* absent otherwise; no accessor ever fails, and looking up an index that is not
\* a key of the pool returns absent rather than failing.
C20_AccessorsMatchTag ==
    [][pc = "constant_pool_loop" /\ pc' # "panicked" =>
          LET e == constant_pool'[index]
          IN /\ Cardinality(Accessors) = 17
             /\ \A accessor \in Accessors :
                   /\ try_cast_into(accessor, e) \in {None, Some(e.data)}
                   /\ try_cast_into(accessor, e) # None <=> e.tag = VariantOf(accessor)
             /\ Cardinality({accessor \in Accessors : try_cast_into(accessor, e) # None}) = 1
             /\ \A i \in 0..(constant_pool_count + 1) :
                   /\ PoolGet(constant_pool', i) = None <=> i \notin DOMAIN constant_pool'
                   /\ i \in DOMAIN constant_pool' =>
                         PoolGet(constant_pool', i) = Some(constant_pool'[i])]_vars

\* C20 happens: the pool holds an entry of each of the 17 variants, and the keys
\* after the Long and the Double are not keys of the pool.
C20_Witness ==
    /\ pc = "read_access_flags"
    /\ {constant_pool[k].tag : k \in DOMAIN constant_pool}
          = {VariantOf(accessor) : accessor \in Accessors}
    /\ 4 \notin DOMAIN constant_pool
    /\ PoolGet(constant_pool, 4) = None

\* The class attribute at the reader's position has the given name.
AttributeNamed(name) ==
    /\ pc = "attributes_loop"
    /\ position + 6 <= DataLen(data)
    /\ ResolvesToUtf8(IndexReadAt(data, position))
    /\ Utf8At(IndexReadAt(data, position)) = NameChars(name)

\* C21, as the specification states it: when decoding a MethodParameters
\* attribute, parameters_count is read as a single byte (u8), so the payload
\* consumed is exactly 1 + 4 * parameters_count bytes (each entry: name_index
\* u16, access_flags u16).
C21_ParametersCountIsOneByte ==
    [][/\ AttributeNamed("MethodParameters")
       /\ position + 6 + 1 + 4 * ByteAt(data, position + 6) <= DataLen(data)
       => /\ panic' # "eof"
          /\ pc' # "panicked" =>
                /\ position' = position + 6 + 1 + 4 * ByteAt(data, position + 6)
                /\ Len(Last(attributes').data.parameters) = ByteAt(data, position + 6)]_vars

C22_WitnessFailure ==
    /\ pc = "panicked"
    /\ ret # None
    /\ ~ret.some.ok
    /\ panic = "unknown_tag"

\* The width in bytes that a decoder asserts.
WidthOf(decoder) ==
    CASE decoder \in {"to_u16"} -> 2
      [] decoder \in {"to_u32", "to_i32", "to_f32"} -> 4
      [] decoder \in {"to_i64", "to_f64"} -> 8

\* The two's-complement reading of the 32 bits b0 b1 b2 b3, most significant first.
SignedWord(b0, b1, b2, b3) ==
    ((b0 % 128) - 128 * (b0 \div 128)) * (2 ^ 24) + (2 ^ 16) * b1 + (2 ^ 8) * b2 + b3

\* The big-endian value of a slice of the decoder's width, in the shape the decoder
\* returns it: a u32 as <<v \div 2^16, v % 2^16>>, an i64 as its signed high word
\* and the two unsigned 16-bit words below it, a float as the fields of its bits.
BigEndianValue(decoder, b) ==
    CASE decoder = "to_u16" -> 256 * b[1] + b[2]
      [] decoder = "to_u32" -> <<((2 ^ 8) * b[1] + b[2]), ((2 ^ 8) * b[3] + b[4])>>
      [] decoder = "to_i32" -> SignedWord(b[1], b[2], b[3], b[4])
      [] decoder = "to_i64" -> <<SignedWord(b[1], b[2], b[3], b[4]),
                                 (2 ^ 8) * b[5] + b[6], (2 ^ 8) * b[7] + b[8]>>
      [] decoder = "to_f32" -> <<b[1] \div 128, 2 * (b[1] % 128) + (b[2] \div 128),
                                 b[2] % 128, (2 ^ 8) * b[3] + b[4]>>
      [] decoder = "to_f64" -> <<b[1] \div 128, 16 * (b[1] % 128) + (b[2] \div 16),
                                 b[2] % 16, (2 ^ 8) * b[3] + b[4],
                                 (2 ^ 8) * b[5] + b[6], (2 ^ 8) * b[7] + b[8]>>

\* C23: to_u16, to_u32, to_i32, to_i64, to_f32 and to_f64 fail their assertion on
\* every slice whose length is not their width (2, 4, 4, 8, 4, 8), and on a slice
\* of that width return its big-endian value (to_i32 and to_i64 the
\* two's-complement reading); read_u16 and read_u32 return what to_u16 and to_u32
\* return on the same two and four bytes.
C23_DecodersAreBigEndian ==
    ret # None =>
        LET call == ret.some
            b == call.bytes
        IN /\ call.decoder \in Decoders =>
                  /\ Len(b) # WidthOf(call.decoder) =>
                         ~call.result.ok /\ call.result.err = "assert_width"
                  /\ Len(b) = WidthOf(call.decoder) =>
                         /\ call.result.ok
                         /\ call.result.val = BigEndianValue(call.decoder, b)
           /\ (call.decoder = "read_u16" /\ Len(b) >= 2) =>
                  /\ call.result.ok
                  /\ call.result.val = ToU16(SubSeq(b, 1, 2)).val
                  /\ call.result.val = 256 * b[1] + b[2]
           /\ (call.decoder = "read_u32" /\ Len(b) >= 4) =>
                  /\ call.result.ok
                  /\ call.result.val = ToU32(SubSeq(b, 1, 4)).val

\* to_u16 returned 0x80FF for the slice 80 FF.
C23_Witness ==
    /\ pc = "returned"
    /\ ret # None
    /\ ret.some.decoder = "to_u16"
    /\ ret.some.bytes = <<128, 255>>
    /\ ret.some.result.val = 33023

\* The number of bytes that the decode of a nested attribute consumed: its header
\* and its payload (0 for the types the inputs do not nest).
NestedSize(a) ==
    IF a.attribute_type = "LineNumberTable"
    THEN 6 + 2 + 4 * Len(a.data.line_number_table)
    ELSE FixedSize(a)

RECURSIVE SumOfNestedSizes(_)
SumOfNestedSizes(list) ==
    IF list = <<>> THEN 0 ELSE NestedSize(Head(list)) + SumOfNestedSizes(Tail(list))

\* The LineNumberTable a is the one of the file at offset q: its entries are the
\* pairs that follow its count, in file order.
LineNumberTableAt(a, q) ==
    /\ Len(a.data.line_number_table) = IndexReadAt(data, q + 6)
    /\ \A i \in DOMAIN a.data.line_number_table :
          a.data.line_number_table[i]
              = [start_pc |-> IndexReadAt(data, q + 8 + 4 * (i - 1)),
                 line_number |-> IndexReadAt(data, q + 10 + 4 * (i - 1))]

\* The Code attribute a is the one of the file at offset q, and its decode has
\* left the reader at offset end.
CodeDecodedAt(a, q, end) ==
    LET code_length == IndexReadAt(data, q + 12)
        table == q + 6 + 8 + code_length
        exception_table_length == IndexReadAt(data, table)
        nested == table + 2 + 8 * exception_table_length
    IN /\ a.data.code = Slice(data, q + 14, q + 14 + code_length)
       /\ Len(a.data.exception_table) = exception_table_length
       /\ \A i \in DOMAIN a.data.exception_table :
             a.data.exception_table[i]
                 = [start_pc |-> IndexReadAt(data, table + 2 + 8 * (i - 1)),
                    end_pc |-> IndexReadAt(data, table + 4 + 8 * (i - 1)),
                    handler_pc |-> IndexReadAt(data, table + 6 + 8 * (i - 1)),
                    catch_type |-> IndexReadAt(data, table + 8 + 8 * (i - 1))]
       /\ ListInFileOrder(a.data.attributes, nested)
       /\ (Len(a.data.attributes) > 0
              /\ a.data.attributes[1].attribute_type = "LineNumberTable")
             => LineNumberTableAt(a.data.attributes[1], nested + 2)
       /\ (\A k \in DOMAIN a.data.attributes : NestedSize(a.data.attributes[k]) > 0)
             => end = q + 6 + 8 + code_length + 2 + 8 * exception_table_length + 2
                        + SumOfNestedSizes(a.data.attributes)

\* C24: the decode of a Code attribute consumes, after the 6-byte header, exactly
\* 8 + code_length + 2 + 8 * exception_table_length + 2 bytes and 6 + payload bytes
\* for each nested attribute; the stored code is the code_length bytes of the
\* input, the exception table has exception_table_length entries in file order,
\* and the nested attributes are decoded from the same cursor (a LineNumberTable
\* nested first holds the entries of the file).  Stated of a method whose only
\* attribute is a Code attribute with code_length < 2^16.
C24_CodeConsumesItsParts ==
    [][(/\ pc = "methods_loop"
        /\ pc' # "panicked"
        /\ Len(Last(methods').attributes) = 1
        /\ Last(methods').attributes[1].attribute_type = "Code")
       => CodeDecodedAt(Last(methods').attributes[1], position + 8, position')]_vars

\* C24 happens: a method has been decoded whose Code attribute has the code B1, no
\* handler and a LineNumberTable with the single entry (0, 42).
C24_Witness ==
    /\ Len(methods) = 1
    /\ Len(methods[1].attributes) = 1
    /\ methods[1].attributes[1].attribute_type = "Code"
    /\ methods[1].attributes[1].data.code = <<177>>
    /\ methods[1].attributes[1].data.exception_table = <<>>
    /\ Len(methods[1].attributes[1].data.attributes) = 1
    /\ methods[1].attributes[1].data.attributes[1].data.line_number_table
          = <<[start_pc |-> 0, line_number |-> 42]>>

\* A method has been decoded whose Code attribute has two handlers and two nested
\* attributes.
C24_WitnessHandlers ==
    /\ Len(methods) = 1
    /\ Len(methods[1].attributes) = 1
    /\ methods[1].attributes[1].attribute_type = "Code"
    /\ Len(methods[1].attributes[1].data.exception_table) = 2
    /\ Len(methods[1].attributes[1].data.attributes) = 2

\* The number of bytes after the tag byte of the entry at offset p of the file.
PayloadSize(d, p) ==
    CASE ByteAt(d, p) = 1 -> 2 + IndexReadAt(d, p + 1)
      [] ByteAt(d, p) \in {3, 4} -> 4
      [] ByteAt(d, p) \in {5, 6} -> 8
      [] ByteAt(d, p) \in {7, 8, 16, 19, 20} -> 2
      [] ByteAt(d, p) \in {9, 10, 11, 12, 17, 18} -> 4
      [] ByteAt(d, p) = 15 -> 3

\* C25: the decode of one constant-pool entry advances the cursor by the tag byte
\* and the payload of the variant: Utf8 2 + length, with the stored length the
\* 16-bit length read; Integer and Float 4; Long and Double 8; Class, String,
\* MethodType, Module and Package 2; FieldRef, MethodRef, InterfaceMethodRef,
\* NameAndType, Dynamic and InvokeDynamic 4; MethodHandle 3.  The stored tag is
\* the variant that the tag byte selects.
C25_EntryAdvancesByItsSize ==
    [][pc = "constant_pool_loop" /\ pc' # "panicked" =>
          LET e == constant_pool'[index]
          IN /\ position' = position + 1 + PayloadSize(data, position)
             /\ e.tag = from_tag(ByteAt(data, position)).some
             /\ ByteAt(data, position) = 1 =>
                   /\ e.data.length = IndexReadAt(data, position + 1)
                   /\ Len(e.data.string) <= e.data.length]_vars

\* C25 happens: entries of all 17 variants have been decoded, the first a Utf8 of
\* length 4, and the reader is past the last of them.
C25_Witness ==
    /\ pc = "read_access_flags"
    /\ Cardinality({constant_pool[k].tag : k \in DOMAIN constant_pool}) = 17
    /\ constant_pool[1].tag = "ConstantUtf8"
    /\ constant_pool[1].data.length = 4
    /\ position > 10

\* The attribute_length of the attribute at offset q of the file, as the two
\* halves of the u32.
LengthReadAt(q) == <<IndexReadAt(data, q + 2), IndexReadAt(data, q + 4)>>

\* The first attribute of the field at the reader's position has the given name.
FieldAttributeNamed(name) ==
    /\ pc = "fields_loop"
    /\ position + 8 + 6 <= DataLen(data)
    /\ IndexReadAt(data, position + 6) > 0
    /\ ResolvesToUtf8(IndexReadAt(data, position + 8))
    /\ Utf8At(IndexReadAt(data, position + 8)) = NameChars(name)

\* C26: the decode of a ConstantValue attribute succeeds iff attribute_length is 2
\* and two payload bytes are there to read; with another attribute_length it fails
\* before a payload byte is consumed, and on success exactly two payload bytes are
\* consumed as constantvalue_index.  Stated of an attribute of the class and of the
\* first attribute of a field.
C26_ConstantValueLengthIsTwo ==
    [][/\ AttributeNamed("ConstantValue") =>
             /\ pc' # "panicked"
                   <=> /\ LengthReadAt(position) = <<0, 2>>
                       /\ position + 6 + 2 <= DataLen(data)
             /\ LengthReadAt(position) # <<0, 2>> =>
                   /\ panic' = "assert_length"
                   /\ position' = position + 6
             /\ pc' # "panicked" =>
                   /\ position' = position + 6 + 2
                   /\ Last(attributes').attribute_type = "ConstantValue"
                   /\ Last(attributes').data.constantvalue_index
                         = IndexReadAt(data, position + 6)
       /\ FieldAttributeNamed("ConstantValue") =>
             /\ LengthReadAt(position + 8) # <<0, 2>> =>
                   /\ pc' = "panicked"
                   /\ panic' = "assert_length"
                   /\ position' = position + 8 + 6
             /\ pc' # "panicked" =>
                   /\ LengthReadAt(position + 8) = <<0, 2>>
                   /\ Last(fields').attributes[1].data.constantvalue_index
                         = IndexReadAt(data, position + 8 + 6)]_vars

\* C26 happens: a ConstantValue attribute of the class with attribute_length 3 has
\* ended the decode right after its header.
C26_Witness ==
    /\ pc = "panicked"
    /\ panic = "assert_length"
    /\ remaining = 1
    /\ attributes = <<>>
    /\ LengthReadAt(position - 6) = <<0, 3>>
    /\ position + 3 = DataLen(data)

\* A ConstantValue attribute of the class with attribute_length 2 has been decoded.
C26_WitnessSuccess ==
    /\ pc = "done"
    /\ Len(attributes) = 1
    /\ attributes[1].attribute_type = "ConstantValue"
    /\ attributes[1].data.constantvalue_index = 11

\* C27, as the specification states it: in every pool built by read_constant_pool
\* the constant_pool_index stored in an entry is the key under which the entry is
\* stored, and no key is inserted twice: an iteration stores its entry under a
\* key that the pool does not have yet.
C27_StoredIndexIsFreshKey ==
    [][pc = "constant_pool_loop" /\ pc' # "panicked" =>
          /\ constant_pool'[index].data.constant_pool_index = index
          /\ index \notin DOMAIN constant_pool]_vars

\* C28, as the specification states it: a call read_n_bytes(n) that fails because
\* position + n exceeds the length of the buffer leaves the position of the reader
\* unchanged: the position at the failure is the offset at which the read started.
C28_FailedReadKeepsPosition ==
    (ret # None /\ ~ret.some.result.ok) => position = ret.some.from

\* C29, as the specification states it: over any sequence of calls on one reader
\* the position never decreases, the buffer never changes, every byte is returned
\* at most once and in increasing order of offset (a call returns the bytes from
\* the position that the call before it left), and in every reachable state
\* 0 <= position <= length of the buffer.
C29_PositionWithinBuffer ==
    /\ [](0 <= position /\ position <= DataLen(data))
    /\ [][/\ position' >= position
          /\ data' = data
          /\ ret'.some.from = position
          /\ ret'.some.result.ok =>
                ret'.some.result.val = Slice(data, position, position')]_vars

RECURSIVE LeastBytes(_)
RECURSIVE LeastBytesOfComponents(_)

\* The fewest bytes that the loops which read a list of attributes consume: 6 for
\* each attribute, 8 for each entry of the exception table of a Code attribute, 6
\* for each component of a Record attribute, and as much for what is nested in them.
LeastBytes(list) ==
    IF list = <<>> THEN 0
    ELSE 6 + (IF Head(list).attribute_type = "Code"
              THEN 8 * Len(Head(list).data.exception_table)
                       + LeastBytes(Head(list).data.attributes)
              ELSE IF Head(list).attribute_type = "Record"
              THEN LeastBytesOfComponents(Head(list).data.components)
              ELSE 0)
           + LeastBytes(Tail(list))

LeastBytesOfComponents(components) ==
    IF components = <<>> THEN 0
    ELSE 6 + LeastBytes(Head(components).attributes)
           + LeastBytesOfComponents(Tail(components))

\* The fewest bytes that the iteration which has just ended consumed, counting one
\* for every iteration of a loop inside it.
LeastBytesOfIteration(loop) ==
    CASE loop = "constant_pool_loop" -> 1
      [] loop = "interfaces_loop" -> 2
      [] loop = "fields_loop" -> 8 + LeastBytes(Last(fields').attributes)
      [] loop = "methods_loop" -> 8 + LeastBytes(Last(methods').attributes)
      [] loop = "attributes_loop" -> LeastBytes(<<Last(attributes')>>)

\* C30: on every input ClassFile::new comes to an end, with a ClassFile or with a
\* panic: every iteration of the loop of the constant pool and of the loops that a
\* count drives (interfaces, fields, methods, attributes, and inside them the
\* exception table, the nested attributes, the record components) consumes at
\* least one byte or fails, so no loop runs forever whatever the counts and the
\* lengths that the file declares.
C30_DecodeTerminates ==
    /\ <>(pc \in {"done", "panicked"})
    /\ [](/\ pc = "constant_pool_loop" => index < constant_pool_count
          /\ pc \in ListLoops => remaining > 0)
    /\ [][(pc \in Loops /\ pc' # "panicked") =>
             /\ position' > position
             /\ position' >= position + LeastBytesOfIteration(pc)
             /\ position' <= DataLen(data)]_vars

\* C30 happens: the loop of a pool that declares more entries than the file holds
\* has ended at the end of the input, after some iterations.
C30_Witness ==
    /\ pc = "panicked"
    /\ panic = "eof"
    /\ index > 1
    /\ index < constant_pool_count
    /\ position >= DataLen(data)

====
